---- MODULE Spec2Model ----
(***************************************************************************)
(* Answer resolution and application of the quiz assistant                 *)
(* (src/src/content/applyAnswer.ts).                                       *)
(*                                                                         *)
(* A JavaScript string is a sequence of one-character strings, so that     *)
(* trimming, lowercasing, stripping and substring tests are computed.      *)
(* `undefined` and the empty string are both the empty sequence: every use *)
(* in applyAnswer.ts tests them by truthiness only.                        *)
(* A DOM element is a position 1..n of the sequence dom, in document       *)
(* order; a ParsedChoice refers to its element by that position.           *)
(***************************************************************************)
EXTENDS Integers, Sequences, FiniteSets, TLC

VARIABLES question, dom, answerChoiceIds, answerText, result, events, before, calls

\* the choice index at hand and the letter each copy of deriveChoiceLetter
\* returned for it; derived names the copies that have run
VARIABLES choiceIndex, payloadLetter, resolutionLetter, derived

\* PlatformRegistry: the registered entries, the page at hand, the adapter
\* the last detect returned, the entries whose isQuizPage it consulted in
\* order, and whether detect has run
VARIABLES entries, page, detected, consulted, detectCalls

\* attachAssistant: the question containers of the page, the Map registry,
\* the registry as it was before the last call, the last call, the number
\* of assistant buttons prepended to each container, and the calls made
VARIABLES containers, registry, registryBefore, attached, qaButtons, attachCalls

\* observeQuestions: the adapter, the state of each element of the page,
\* the WeakSet processed, the callback invocations per element, the elements
\* a discovery pass left out as already processed, the elements holding an
\* assistant button, the subscription, the mutation records not yet
\* delivered to the observer, the timers pending, and whether the address
\* differs from lastUrl
VARIABLES platformAdapter, nodes, processed, deliveries, skipped, qaButton,
          subscription, pending, debounceTimer, initialTimer, urlTimers,
          urlChanged

\* the element that each element of the page lies inside, 0 for none
VARIABLES parentElement

\* parseQuestion: the adapter that parses, the question container in the
\* live document, the container as it was before the last call, the
\* fallback index, what the rest of the document tells the Wiley adapter,
\* and the questions the calls returned
VARIABLES parser, liveElement, liveBefore, parseIndex, pageInfo, parsedQuestions

\* a question assistant and its solve attempts: the state of the assistant,
\* the attempts in the order of the clicks that started them, the widgets
\* of each rendering of the question by the host page, the rendering that
\* is in the document, the requests sent and not yet answered, the clicks
\* on the button, and the question the container holds
VARIABLES assistantState, attempts, renderings, attachedGeneration, inFlight, clicks,
          solveScenario

applyVars == <<question, dom, answerChoiceIds, answerText, result, events, before, calls>>

letterVars == <<choiceIndex, payloadLetter, resolutionLetter, derived>>

registryVars == <<entries, page, detected, consulted, detectCalls>>

attachVars == <<containers, registry, registryBefore, attached, qaButtons, attachCalls>>

observeVars ==
  <<platformAdapter, nodes, processed, deliveries, skipped, qaButton, subscription,
    pending, debounceTimer, initialTimer, urlTimers, urlChanged, parentElement>>

parseVars == <<parser, liveElement, liveBefore, parseIndex, pageInfo, parsedQuestions>>

solveVars ==
  <<assistantState, attempts, renderings, attachedGeneration, inFlight, clicks, solveScenario>>

vars == <<applyVars, letterVars, registryVars, attachVars, observeVars, parseVars, solveVars>>

\* the variables outside each part of the content script
outsideSolve == <<applyVars, letterVars, registryVars, attachVars, observeVars, parseVars>>

outsideApply == <<letterVars, registryVars, attachVars, observeVars, parseVars, solveVars>>

outsideLetters == <<applyVars, registryVars, attachVars, observeVars, parseVars, solveVars>>

outsideRegistry == <<applyVars, letterVars, attachVars, observeVars, parseVars, solveVars>>

outsideAttach == <<applyVars, letterVars, registryVars, observeVars, parseVars, solveVars>>

outsideObserve == <<applyVars, letterVars, registryVars, attachVars, parseVars, solveVars>>

outsideParse == <<applyVars, letterVars, registryVars, attachVars, observeVars, solveVars>>

(***************************************************************************)
(* Characters and strings                                                  *)
(***************************************************************************)
UpperLetters == <<"A","B","C","D","E","F","G","H","I","J","K","L","M",
                  "N","O","P","Q","R","S","T","U","V","W","X","Y","Z">>

LowerLetters == <<"a","b","c","d","e","f","g","h","i","j","k","l","m",
                  "n","o","p","q","r","s","t","u","v","w","x","y","z">>

Digits == <<"0","1","2","3","4","5","6","7","8","9">>

\* \s of the regular expressions and of String.prototype.trim
Whitespace == {" ", "\t", "\n"}

\* U+2212, the unicode minus sign, as one character
UnicodeMinus == "U+2212"

Range(s) == {s[i] : i \in 1..Len(s)}

\* String.fromCharCode for the codes 65..90
fromCharCode(code) == UpperLetters[code - 64]

\* the lowercase letter of each uppercase letter
LowerOf ==
  [c \in Range(UpperLetters) |->
     LowerLetters[CHOOSE i \in 1..26 : UpperLetters[i] = c]]

toLowerChar(c) == IF c \in DOMAIN LowerOf THEN LowerOf[c] ELSE c

toLowerCase(s) == [i \in 1..Len(s) |-> toLowerChar(s[i])]

\* s without its leading characters that belong to set
RECURSIVE StripLeading(_, _)
StripLeading(s, set) ==
  IF s # <<>> /\ Head(s) \in set THEN StripLeading(Tail(s), set) ELSE s

\* s without its trailing characters that belong to set
RECURSIVE StripTrailing(_, _)
StripTrailing(s, set) ==
  IF s # <<>> /\ s[Len(s)] \in set
  THEN StripTrailing(SubSeq(s, 1, Len(s) - 1), set)
  ELSE s

trim(s) == StripTrailing(StripLeading(s, Whitespace), Whitespace)

\* String.prototype.includes
includes(s, sub) ==
  \E i \in 0..(Len(s) - Len(sub)) : SubSeq(s, i + 1, i + Len(sub)) = sub

\* s.replace(/\s+/g, " ")
RECURSIVE CollapseWhitespace(_)
CollapseWhitespace(s) ==
  IF s = <<>> THEN <<>>
  ELSE IF Head(s) \in Whitespace
       THEN <<" ">> \o CollapseWhitespace(StripLeading(s, Whitespace))
       ELSE <<Head(s)>> \o CollapseWhitespace(Tail(s))

\* s.split(sep) for a one-character separator
RECURSIVE SplitAcc(_, _, _)
SplitAcc(s, sep, current) ==
  IF s = <<>> THEN <<current>>
  ELSE IF Head(s) = sep
       THEN <<current>> \o SplitAcc(Tail(s), sep, <<>>)
       ELSE SplitAcc(Tail(s), sep, Append(current, Head(s)))

split(s, sep) == SplitAcc(s, sep, <<>>)

\* parts.join(sep)
RECURSIVE join(_, _)
join(parts, sep) ==
  IF parts = <<>> THEN <<>>
  ELSE IF Len(parts) = 1 THEN parts[1]
       ELSE parts[1] \o sep \o join(Tail(parts), sep)

\* String(n) for n >= 0
RECURSIVE String(_)
String(n) ==
  IF n < 10 THEN <<Digits[n + 1]>>
  ELSE String(n \div 10) \o <<Digits[(n % 10) + 1]>>

\* array.filter(Boolean) on an array of strings
FilterNonEmpty(seq) == SelectSeq(seq, LAMBDA s : s # <<>>)

(***************************************************************************)
(* Normalization (applyAnswer.ts 306-331, 375-398)                         *)
(***************************************************************************)
NeedleLeading == {"[", "(", "#"} \cup Whitespace

NeedleTrailing == {"]", ")"} \cup Whitespace

normalizeNeedle(raw) ==
  IF raw = <<>> THEN <<>>
  ELSE toLowerCase(trim(StripTrailing(StripLeading(raw, NeedleLeading),
                                      NeedleTrailing)))

\* [a-z0-9]
Alphanumerics == Range(LowerLetters) \cup Range(Digits)

normalizeComparableText(raw) ==
  IF raw = <<>> THEN <<>>
  ELSE LET minus == [i \in 1..Len(raw) |->
                       IF raw[i] = UnicodeMinus THEN "-" ELSE raw[i]]
           lower == toLowerCase(trim(CollapseWhitespace(minus)))
       IN SelectSeq(lower, LAMBDA c : c \in Alphanumerics)

\* answerText is [kind |-> "undefined"], [kind |-> "string", s |-> string]
\* or [kind |-> "array", a |-> sequence of strings]
normalizeAnswerParts(text) ==
  IF text.kind = "array"
  THEN FilterNonEmpty([i \in 1..Len(text.a) |-> trim(text.a[i])])
  ELSE IF text.kind # "string" THEN <<>>
  ELSE LET trimmed == trim(text.s)
           parts(sep) == LET raw == split(trimmed, sep)
                         IN FilterNonEmpty([i \in 1..Len(raw) |-> trim(raw[i])])
       IN IF trimmed = <<>> THEN <<>>
          ELSE IF "\n" \in Range(trimmed) THEN parts("\n")
          ELSE IF "," \in Range(trimmed) THEN parts(",")
          ELSE <<trimmed>>

\* the loop as ordinary base 26 with A for zero: no borrow between digits
RECURSIVE LetterLoopPositional(_, _)
LetterLoopPositional(current, acc) ==
  IF current >= 26
  THEN LetterLoopPositional(current \div 26,
                            <<fromCharCode(65 + (current % 26))>> \o acc)
  ELSE <<fromCharCode(65 + current)>> \o acc

RECURSIVE LetterLoop(_, _)
LetterLoop(current, acc) ==
  IF current >= 0
  THEN LetterLoop((current \div 26) - 1, <<fromCharCode(65 + (current % 26))>> \o acc)
  ELSE acc

\* deriveChoiceLetter of applyAnswer.ts; n is the 0-based index
deriveChoiceLetter(n) == IF n < 0 THEN <<>> ELSE LetterLoop(n, <<>>)

\* the loop of the copy in content/index.ts
RECURSIVE PayloadLetterLoop(_, _)
PayloadLetterLoop(current, acc) ==
  IF current >= 0
  THEN PayloadLetterLoop((current \div 26) - 1,
                         <<fromCharCode(65 + (current % 26))>> \o acc)
  ELSE acc

\* deriveChoiceLetter of content/index.ts, used to build the request payload
deriveChoiceLetterOfPayload(n) ==
  IF n < 0 THEN <<>> ELSE PayloadLetterLoop(n, <<>>)

(***************************************************************************)
(* Choice resolution (applyAnswer.ts 174-299).  A choice is named by its   *)
(* 1-based position in question.choices, which stands for the identity of  *)
(* the ParsedChoice object; the 0-based index of the code is position - 1. *)
(***************************************************************************)
AsArray(ids) == [kind |-> "array", a |-> ids]

\* candidates that leave the id of the choice out
CandidatesWithoutId(choice, position) ==
  FilterNonEmpty(<<normalizeNeedle(choice.value),
                   normalizeNeedle(deriveChoiceLetter(position - 1)),
                   normalizeNeedle(String(position))>>)

\* the candidates of one choice: id, value, derived letter, 1-based position
Candidates(choice, position) ==
  FilterNonEmpty(<<normalizeNeedle(choice.id),
                   normalizeNeedle(choice.value),
                   normalizeNeedle(deriveChoiceLetter(position - 1)),
                   normalizeNeedle(String(position))>>)

\* the positions of the choices one of whose candidates is among needles
MatchesOfNeedles(q, needles) ==
  IF needles = {} THEN <<>>
  ELSE SelectSeq([p \in 1..Len(q.choices) |-> p],
                 LAMBDA p : Range(Candidates(q.choices[p], p)) \cap needles # {})

resolveChoicesByIds(q, ids) ==
  IF Len(ids) = 0 THEN <<>>
  ELSE MatchesOfNeedles(q,
         Range(FilterNonEmpty([i \in 1..Len(ids) |-> normalizeNeedle(ids[i])])))

\* the matches pushed for the choice at one position: by label, then by
\* letter or position, so that a choice can be pushed twice
\* label is the normalized label of the choice at position p, needles the
\* non-empty normalizeNeedle of the parts
TextMatchesAt(label, position, normalizedParts, needles) ==
  IF label = <<>> THEN <<>>
  ELSE (IF \E i \in 1..Len(normalizedParts) :
              \/ label = normalizedParts[i]
              \/ includes(label, normalizedParts[i])
              \/ includes(normalizedParts[i], label)
        THEN <<position>> ELSE <<>>)
       \o
       (IF \/ normalizeNeedle(deriveChoiceLetter(position - 1)) \in needles
           \/ normalizeNeedle(String(position)) \in needles
        THEN <<position>> ELSE <<>>)

RECURSIVE TextMatchesFrom(_, _, _, _)
TextMatchesFrom(q, normalizedParts, needles, p) ==
  IF p > Len(q.choices) THEN <<>>
  ELSE TextMatchesAt(normalizeComparableText(q.choices[p].label), p,
                     normalizedParts, needles)
         \o TextMatchesFrom(q, normalizedParts, needles, p + 1)

MatchesOfParts(q, parts, normalizedParts) ==
  IF parts = <<>> THEN <<>>
  ELSE IF normalizedParts = <<>> THEN <<>>
  ELSE TextMatchesFrom(q, normalizedParts,
         Range(FilterNonEmpty([i \in 1..Len(parts) |-> normalizeNeedle(parts[i])])),
         1)

NormalizedParts(parts) ==
  FilterNonEmpty([i \in 1..Len(parts) |-> normalizeComparableText(parts[i])])

MatchesOfText(q, parts) == MatchesOfParts(q, parts, NormalizedParts(parts))

resolveChoicesByText(q, text) == MatchesOfText(q, normalizeAnswerParts(text))

\* 0 stands for undefined
\* a resolution that tries the label text before the identifiers
FirstMatchTextFirst(direct, fromText, fromIdsAsText) ==
  IF fromText # <<>> THEN fromText[1]
  ELSE IF direct # <<>> THEN direct[1]
  ELSE IF fromIdsAsText # <<>> THEN fromIdsAsText[1]
  ELSE 0

FirstMatch(direct, fromText, fromIdsAsText) ==
  IF direct # <<>> THEN direct[1]
  ELSE IF fromText # <<>> THEN fromText[1]
  ELSE IF fromIdsAsText # <<>> THEN fromIdsAsText[1]
  ELSE 0

resolveSingleChoice(q, ids, text) ==
  FirstMatch(resolveChoicesByIds(q, ids),
             resolveChoicesByText(q, text),
             resolveChoicesByText(q, AsArray(ids)))

\* a union that leaves out the identifiers taken as label text
resolveMultiChoicesTwoStrategies(q, ids, text) ==
  Range(resolveChoicesByIds(q, ids)) \cup Range(resolveChoicesByText(q, text))

resolveMultiChoices(q, ids, text) ==
  Range(resolveChoicesByIds(q, ids))
    \cup Range(resolveChoicesByText(q, text))
    \cup Range(resolveChoicesByText(q, AsArray(ids)))

(***************************************************************************)
(* Widgets.  A widget is [tag, checked, value, options]: tag is "radio",   *)
(* "checkbox", "text" or "select"; options (of a select) is a sequence of  *)
(* [value, text].  Reading .checked of an element that has none gives      *)
(* undefined, which is FALSE here.                                         *)
(***************************************************************************)
Success == [success |-> TRUE, error |-> ""]

Failure(message) == [success |-> FALSE, error |-> message]

NoEvents(d) == [e \in 1..Len(d) |-> <<>>]

\* triggerInputEvent: one bubbling "input", then one bubbling "change"
triggerInputEvent(ev, element) ==
  [ev EXCEPT ![element] = @ \o <<"input", "change">>]

\* the value a select reports after `select.value = value`: the value of the
\* option that carries it, or the empty string when no option carries it
AssignSelectValue(widget, value) ==
  IF \E i \in 1..Len(widget.options) : widget.options[i].value = value
  THEN value
  ELSE <<>>

\* element.value = value
AssignValue(d, element, value) ==
  [d EXCEPT ![element].value =
     IF d[element].tag = "select" THEN AssignSelectValue(d[element], value) ELSE value]

Outcome(res, d, ev) == [result |-> res, dom |-> d, events |-> ev]

(***************************************************************************)
(* applyAnswer, one operator per branch (applyAnswer.ts 26-165)            *)
(***************************************************************************)
\* a single branch that clicks the radio, whatever it holds
ApplyTargetToggling(q, d, targetChoice) ==
  IF targetChoice = 0
  THEN Outcome(Failure("No matching answer choice returned by GPT."), d, NoEvents(d))
  ELSE Outcome(Success,
               [d EXCEPT ![q.choices[targetChoice].element].checked =
                           ~d[q.choices[targetChoice].element].checked],
               triggerInputEvent(NoEvents(d), q.choices[targetChoice].element))

\* lines 37-48, targetChoice being 0 for undefined
ApplyTarget(q, d, targetChoice) ==
  IF targetChoice = 0
  THEN Outcome(Failure("No matching answer choice returned by GPT."), d, NoEvents(d))
  ELSE IF d[q.choices[targetChoice].element].checked
  THEN Outcome(Success, d, NoEvents(d))
  ELSE Outcome(Success,
               [d EXCEPT ![q.choices[targetChoice].element].checked = TRUE],
               triggerInputEvent(NoEvents(d), q.choices[targetChoice].element))

ApplySingleBranch(q, d, ids, text) ==
  ApplyTarget(q, d, resolveSingleChoice(q, ids, text))

\* the loop over question.choices of the multi branch, from position p
RECURSIVE MultiLoop(_, _, _, _, _)
MultiLoop(q, resolved, p, d, ev) ==
  IF p > Len(q.choices) THEN Outcome(Success, d, ev)
  ELSE LET element == q.choices[p].element
           shouldSelect == p \in resolved
       IN IF d[element].tag \notin {"radio", "checkbox", "text"}
          THEN MultiLoop(q, resolved, p + 1, d, ev)
          ELSE IF d[element].checked = shouldSelect
          THEN MultiLoop(q, resolved, p + 1, d, ev)
          ELSE MultiLoop(q, resolved, p + 1,
                         [d EXCEPT ![element].checked = shouldSelect],
                         triggerInputEvent(ev, element))

\* a multi branch that unchecks every checkbox before it reports no match
ApplyResolvedClearing(q, d, resolved) ==
  IF resolved = {}
  THEN [MultiLoop(q, {}, 1, d, NoEvents(d)) EXCEPT
          !.result = Failure("GPT selections did not match any available choices.")]
  ELSE MultiLoop(q, resolved, 1, d, NoEvents(d))

\* lines 53-71
ApplyResolved(q, d, resolved) ==
  IF resolved = {}
  THEN Outcome(Failure("GPT selections did not match any available choices."),
               d, NoEvents(d))
  ELSE MultiLoop(q, resolved, 1, d, NoEvents(d))

ApplyMultiBranch(q, d, ids, text) ==
  ApplyResolved(q, d, resolveMultiChoices(q, ids, text))

\* a payload made of the trimmed parts of the answer
TextPayloadTrimmed(text) == join(normalizeAnswerParts(text), <<"\n">>)

\* the payload of the text branch: a string as is, an array joined by "\n"
TextPayload(text) ==
  IF text.kind = "string" THEN text.s
  ELSE IF text.kind = "array" THEN join(text.a, <<"\n">>)
  ELSE <<>>

\* lines 81-99
ApplyPayload(q, d, value) ==
  IF value = <<>>
  THEN Outcome(Failure("GPT did not provide text to populate this response."),
               d, NoEvents(d))
  ELSE IF q.choices = <<>>
  THEN Outcome(Failure("Unable to locate the text input for this question."),
               d, NoEvents(d))
  ELSE Outcome(Success, AssignValue(d, q.choices[1].element, value),
               triggerInputEvent(NoEvents(d), q.choices[1].element))

ApplyTextBranch(q, d, ids, text) == ApplyPayload(q, d, TextPayload(text))

(***************************************************************************)
(* The select branch (applyAnswer.ts 102-162, 355-368, 406-508).  A Map is *)
(* a function whose DOMAIN is its key set.                                 *)
(***************************************************************************)
EmptyMap == [k \in {} |-> <<>>]

MapSet(map, key, value) ==
  [k \in DOMAIN map \cup {key} |-> IF k = key THEN value ELSE map[k]]

\* Map.get, undefined being the empty string
MapGet(map, key) == IF key \in DOMAIN map THEN map[key] ELSE <<>>

\* the choices kept by the filter of lines 103-108
SelectChoicesOf(q) ==
  SelectSeq(q.choices, LAMBDA c : c.kind = "select" /\ trim(c.value) # <<>>)

RECURSIVE UniqueLoop(_, _, _)
UniqueLoop(choices, d, unique) ==
  IF choices = <<>> THEN unique
  ELSE LET element == Head(choices).element
       IN IF d[element].tag # "select" \/ element \in Range(unique)
          THEN UniqueLoop(Tail(choices), d, unique)
          ELSE UniqueLoop(Tail(choices), d, Append(unique, element))

getUniqueSelectElements(choices, d) == UniqueLoop(choices, d, <<>>)

\* byId.get(id): the last choice with that id, compared as is; a record
\* with kind "none" stands for undefined
ByIdGet(selectChoices, id) ==
  LET hits == {i \in 1..Len(selectChoices) : selectChoices[i].id = id}
  IN IF hits = {} THEN [kind |-> "none"]
     ELSE selectChoices[CHOOSE i \in hits : \A j \in hits : j <= i]

Requested(selectChoices, ids) ==
  SelectSeq([i \in 1..Len(ids) |-> ByIdGet(selectChoices, ids[i])],
            LAMBDA c : c.kind # "none")

\* a mapping in which a later claimed identifier replaces an earlier one
RECURSIVE ChosenBySelectLastWins(_, _, _)
ChosenBySelectLastWins(requested, d, map) ==
  IF requested = <<>> THEN map
  ELSE LET choice == Head(requested)
       IN IF d[choice.element].tag # "select"
          THEN ChosenBySelectLastWins(Tail(requested), d, map)
          ELSE ChosenBySelectLastWins(Tail(requested), d,
                                      MapSet(map, choice.element, choice.value))

RECURSIVE ChosenBySelect(_, _, _)
ChosenBySelect(requested, d, map) ==
  IF requested = <<>> THEN map
  ELSE LET choice == Head(requested)
       IN IF d[choice.element].tag # "select" \/ choice.element \in DOMAIN map
          THEN ChosenBySelect(Tail(requested), d, map)
          ELSE ChosenBySelect(Tail(requested), d,
                              MapSet(map, choice.element, choice.value))

\* question.element.querySelectorAll("select"), kept when in selects
getSelectsInDomOrder(d, selects) ==
  LET ordered == SelectSeq([e \in 1..Len(d) |-> e],
                           LAMBDA e : d[e].tag = "select" /\ e \in Range(selects))
  IN IF Len(ordered) > 0 THEN ordered ELSE selects

\* option.textContent with whitespace collapsed, trimmed, lowercased
OptionLabel(option) == toLowerCase(trim(CollapseWhitespace(option.text)))

\* the value of the first option that satisfies test
FirstOptionValue(options, test(_)) ==
  IF \A i \in 1..Len(options) : ~test(options[i])
  THEN [found |-> FALSE, value |-> <<>>]
  ELSE [found |-> TRUE,
        value |-> options[CHOOSE i \in 1..Len(options) :
                            /\ test(options[i])
                            /\ \A j \in 1..(i - 1) : ~test(options[j])].value]

FirstFound(byValue, byLabel, byContains) ==
  IF byValue.found THEN byValue.value
  ELSE IF byLabel.found THEN byLabel.value
  ELSE IF byContains.found THEN byContains.value
  ELSE <<>>

\* the three passes over select.options, for the needle of requested
MatchOptionOfNeedle(select, requested, needle) ==
  IF needle = <<>> THEN <<>>
  ELSE FirstFound(
         FirstOptionValue(select.options,
           LAMBDA o : trim(o.value) = trim(requested)),
         FirstOptionValue(select.options,
           LAMBDA o : OptionLabel(o) # <<>> /\ OptionLabel(o) = needle),
         FirstOptionValue(select.options,
           LAMBDA o : OptionLabel(o) # <<>> /\ includes(OptionLabel(o), needle)))

\* the empty string stands for undefined
matchSelectOption(select, requested) ==
  MatchOptionOfNeedle(select, requested, toLowerCase(trim(requested)))

\* mapping after the callback of lines 150-156 for one dropdown
MappingWith(mapping, select, match) ==
  IF match = <<>> THEN mapping ELSE MapSet(mapping, select, match)

\* a fallback that resolves the first part against every dropdown
RECURSIVE TextMappingFirstPart(_, _, _, _, _)
TextMappingFirstPart(orderedSelects, parts, d, index, mapping) ==
  IF index > Len(orderedSelects) THEN mapping
  ELSE IF parts = <<>>
  THEN TextMappingFirstPart(orderedSelects, parts, d, index + 1, mapping)
  ELSE TextMappingFirstPart(orderedSelects, parts, d, index + 1,
         MappingWith(mapping, orderedSelects[index],
                     matchSelectOption(d[orderedSelects[index]], parts[1])))

RECURSIVE TextMapping(_, _, _, _, _)
TextMapping(orderedSelects, parts, d, index, mapping) ==
  IF index > Len(orderedSelects) THEN mapping
  ELSE IF index > Len(parts)
  THEN TextMapping(orderedSelects, parts, d, index + 1, mapping)
  ELSE TextMapping(orderedSelects, parts, d, index + 1,
         MappingWith(mapping, orderedSelects[index],
                     matchSelectOption(d[orderedSelects[index]], parts[index])))

\* a read-back that accepts whatever the dropdown reports
ReadBackIgnored(d, select, value) == FALSE

\* line 484: after the write the dropdown does not report the value
ReadBackDiffers(d, select, value) ==
  AssignValue(d, select, value)[select].value # value

\* the loop of applySelectValues from position i of selects
RECURSIVE SelectValuesLoop(_, _, _, _, _, _, _)
SelectValuesLoop(selects, valuesBySelect, i, d, ev, appliedAny, matchedCount) ==
  IF i > Len(selects)
  THEN IF ~appliedAny /\ matchedCount = 0
       THEN Outcome(Failure("GPT selections did not match any available dropdown options."),
                    d, ev)
       ELSE IF matchedCount < Len(selects)
       THEN Outcome(Failure("GPT did not provide selections for all dropdowns in this question."),
                    d, ev)
       ELSE Outcome(Success, d, ev)
  ELSE LET select == selects[i]
           value == MapGet(valuesBySelect, selects[i])
       IN IF value = <<>>
          THEN SelectValuesLoop(selects, valuesBySelect, i + 1, d, ev,
                                appliedAny, matchedCount)
          ELSE IF d[select].value = value
          THEN SelectValuesLoop(selects, valuesBySelect, i + 1, d, ev,
                                TRUE, matchedCount + 1)
          ELSE IF ReadBackDiffers(d, select, value)
          THEN Outcome(Failure("Canvas rejected dropdown value."),
                       AssignValue(d, select, value), ev)
          ELSE SelectValuesLoop(selects, valuesBySelect, i + 1,
                                AssignValue(d, select, value),
                                triggerInputEvent(ev, select), TRUE, matchedCount + 1)

applySelectValues(selects, valuesBySelect, d, ev) ==
  SelectValuesLoop(selects, valuesBySelect, 1, d, ev, FALSE, 0)

\* lines 139-161: the fallback on answerText after the pass on the ids
SelectFallback(uniqueSelectsInQuestion, appliedFromIds, parts) ==
  IF appliedFromIds.result.success THEN appliedFromIds
  ELSE IF Len(parts) = 0 THEN appliedFromIds
  ELSE applySelectValues(
         uniqueSelectsInQuestion,
         TextMapping(getSelectsInDomOrder(appliedFromIds.dom, uniqueSelectsInQuestion),
                     parts, appliedFromIds.dom, 1, EmptyMap),
         appliedFromIds.dom, appliedFromIds.events)

\* lines 115-138: the pass on the claimed ids
SelectPasses(selectChoices, uniqueSelectsInQuestion, d, ids, text) ==
  IF Len(uniqueSelectsInQuestion) = 0
  THEN Outcome(Failure("Unable to locate dropdown inputs for this question."),
               d, NoEvents(d))
  ELSE SelectFallback(
         uniqueSelectsInQuestion,
         applySelectValues(uniqueSelectsInQuestion,
                           ChosenBySelect(Requested(selectChoices, ids), d, EmptyMap),
                           d, NoEvents(d)),
         normalizeAnswerParts(text))

\* lines 102-114
SelectOfChoices(selectChoices, d, ids, text) ==
  IF Len(selectChoices) = 0
  THEN Outcome(Failure("Unable to locate dropdown options for this question."),
               d, NoEvents(d))
  ELSE SelectPasses(selectChoices, getUniqueSelectElements(selectChoices, d),
                    d, ids, text)

ApplySelectBranch(q, d, ids, text) ==
  SelectOfChoices(SelectChoicesOf(q), d, ids, text)

ApplyUnsupported(q, d, ids, text) ==
  Outcome(Failure("Unsupported question type."), d, NoEvents(d))

\* applyAnswer(question, answerChoiceIds, answerText) on the widgets d
applyAnswer(q, d, ids, text) ==
  IF q.type = "single" THEN ApplySingleBranch(q, d, ids, text)
  ELSE IF q.type = "multi" THEN ApplyMultiBranch(q, d, ids, text)
  ELSE IF q.type = "text" THEN ApplyTextBranch(q, d, ids, text)
  ELSE IF q.type = "select" THEN ApplySelectBranch(q, d, ids, text)
  ELSE ApplyUnsupported(q, d, ids, text)

(***************************************************************************)
(* Inputs: the questions the adapters can hand to applyAnswer, the state   *)
(* of their widgets, and the suggestions of the model                      *)
(***************************************************************************)
MaxChoices == 3

MaxIds == 2

MaxSelects == 2

\* radio / checkbox choices as parsed: id, label, value attribute
ChoiceTemplates ==
  << [id |-> <<"o","p","t","-","a">>, label |-> <<"P","a","r","i","s">>,
      value |-> <<"1","0">>],
     [id |-> <<"O","p","t","-","B">>,
      label |-> <<"P","a","r","i","s",","," ","F","r","a","n","c","e">>,
      value |-> <<>>],
     [id |-> <<"a">>, label |-> <<"L","o","n","d","o","n">>,
      value |-> <<"2","0">>] >>

\* the options of a dropdown: a placeholder, two plain options, one whose
\* value attribute carries surrounding whitespace, one whose value is part
\* of the label of an earlier option and whose label is the value of it
OptionLists ==
  << << [value |-> <<>>, text |-> <<"S","e","l","e","c","t">>],
        [value |-> <<"r","e","d">>, text |-> <<"R","e","d">>],
        [value |-> <<"b","l","u","e">>, text |-> <<"D","a","r","k"," ","B","l","u","e">>] >>,
     << [value |-> <<"r","e","d">>, text |-> <<" ","R","e","d"," "," ","w","i","n","e">>],
        [value |-> <<" ","p","a","d">>, text |-> <<"P","a","d">>],
        [value |-> <<"w","i","n","e">>, text |-> <<"r","e","d">>] >> >>

\* the id attribute of the dropdown at a 1-based rank among the dropdowns
SelectIdAttr(rank) == <<"s">> \o String(rank)

SelectWidget(list, current) ==
  [tag |-> "select", checked |-> FALSE, value |-> current,
   options |-> OptionLists[list]]

\* the dropdowns a container can hold: the first option selected, as when
\* the page loads, or the second option of the first list
SelectWidgets ==
  {SelectWidget(list, OptionLists[list][1].value) : list \in 1..Len(OptionLists)}
    \cup {SelectWidget(1, OptionLists[1][2].value)}

\* raw.replaceAll("::", "--") of deriveSelectStableId
RECURSIVE ReplaceDelimiter(_)
ReplaceDelimiter(raw) ==
  IF Len(raw) < 2 THEN raw
  ELSE IF raw[1] = ":" /\ raw[2] = ":"
       THEN <<"-", "-">> \o ReplaceDelimiter(SubSeq(raw, 3, Len(raw)))
       ELSE <<raw[1]>> \o ReplaceDelimiter(Tail(raw))

\* the choices of one dropdown (buildSelectChoices / extractChoices):
\* one per option whose trimmed value is not empty, id "stableId::value"
SelectChoicesOfWidget(widget, element, rank) ==
  LET kept == SelectSeq(widget.options, LAMBDA o : trim(o.value) # <<>>)
  IN [i \in 1..Len(kept) |->
        [id |-> ReplaceDelimiter(SelectIdAttr(rank)) \o <<":", ":">> \o trim(kept[i].value),
         label |-> SelectIdAttr(rank) \o <<":", " ">> \o trim(CollapseWhitespace(kept[i].text)),
         kind |-> "select",
         value |-> trim(kept[i].value),
         element |-> element]]

RECURSIVE Flatten(_)
Flatten(seqs) == IF seqs = <<>> THEN <<>> ELSE Head(seqs) \o Flatten(Tail(seqs))

InputWidget(tag, checked, value) ==
  [tag |-> tag, checked |-> checked, value |-> value, options |-> <<>>]

\* a question of radios (kind "single") or checkboxes (kind "multi"), one
\* choice per widget in document order, followed (Wiley) by the choices of
\* trailing dropdowns
CheckableScenario(kind, templates, checked, trailing) ==
  LET n == Len(templates)
      tag == IF kind = "single" THEN "radio" ELSE "checkbox"
      inputs == [p \in 1..n |->
                   InputWidget(tag, p \in checked, ChoiceTemplates[templates[p]].value)]
      own == [p \in 1..n |->
                [id |-> ChoiceTemplates[templates[p]].id,
                 label |-> ChoiceTemplates[templates[p]].label,
                 kind |-> kind,
                 value |-> ChoiceTemplates[templates[p]].value,
                 element |-> p]]
      extra == Flatten([r \in 1..Len(trailing) |->
                          SelectChoicesOfWidget(trailing[r], n + r, r)])
  IN [question |-> [type |-> kind, choices |-> own \o extra],
      dom |-> inputs \o trailing]

TemplateSeqs == UNION {[1..n -> 1..Len(ChoiceTemplates)] : n \in 1..MaxChoices}

TrailingSelects == {<<>>, <<SelectWidget(1, <<>>)>>}

\* the widget lists of at most MaxChoices widgets in all
Fits(templates, trailing) == Len(templates) + Len(trailing) <= MaxChoices

CheckableScenarios(kind, checkedSets) ==
  {CheckableScenario(kind, x[1], x[2], x[3]) :
     x \in {y \in TemplateSeqs \X checkedSets \X TrailingSelects : Fits(y[1], y[3])}}

\* radios: none checked, the first, or the last of a full list
SingleScenarios == CheckableScenarios("single", {{}, {1}, {MaxChoices}})

\* checkboxes: none checked, the first, or all
MultiScenarios == CheckableScenarios("multi", {{}, {1}, 1..MaxChoices})

\* the text fields of a container: empty, or already holding an answer
TextWidgets ==
  {InputWidget(tag, FALSE, v) :
     tag \in {"text", "textarea"}, v \in {<<>>, <<"4"," ","2">>}}

\* a question of type text: one choice per text field, after (Wiley) the
\* choices of leading radios.  With no widget at all it has no choice: the
\* ParsedQuestion type admits it and line 87 provides for it, though neither
\* adapter returns it
TextScenario(radios, fields) ==
  LET r == Len(radios)
      lead == [p \in 1..r |->
                 [id |-> <<"r">> \o String(p), label |-> <<"O","p","t","i","o","n">>,
                  kind |-> "single", value |-> radios[p].value, element |-> p]]
      own == [p \in 1..Len(fields) |->
                [id |-> <<"t">> \o String(p),
                 label |-> <<"F","r","e","e"," ","r","e","s","p","o","n","s","e">>,
                 kind |-> "text", value |-> fields[p].value, element |-> r + p]]
  IN [question |-> [type |-> "text", choices |-> lead \o own],
      dom |-> radios \o fields]

TextScenarios ==
  {TextScenario(x[1], x[2]) :
     x \in {y \in {<<>>, <<InputWidget("radio", FALSE, <<"o","n">>)>>}
                    \X UNION {[1..n -> TextWidgets] : n \in 0..2} :
               y[2] = <<>> => y[1] = <<>>}}

\* a question of type select: the choices of its dropdowns in document
\* order, after (Wiley) the choice of a leading text field
SelectScenario(fields, selects) ==
  LET f == Len(fields)
      lead == [p \in 1..f |->
                 [id |-> <<"t">> \o String(p), label |-> <<"A","n","s","w","e","r">>,
                  kind |-> "text", value |-> fields[p].value, element |-> p]]
      own == Flatten([r \in 1..Len(selects) |->
                        SelectChoicesOfWidget(selects[r], f + r, r)])
  IN [question |-> [type |-> "select", choices |-> lead \o own],
      dom |-> fields \o selects]

SelectScenarios ==
  {SelectScenario(f, s) :
     f \in {<<>>, <<InputWidget("text", FALSE, <<>>)>>},
     s \in UNION {[1..n -> SelectWidgets] : n \in 1..MaxSelects}}

\* a question of type unknown: no recognised widget (Canvas), or radios
\* mixed with checkboxes (Wiley)
UnknownScenarios ==
  {[question |-> [type |-> "unknown", choices |-> <<>>], dom |-> <<>>],
   [question |-> [type |-> "unknown",
                  choices |-> <<[id |-> <<"r","1">>, label |-> <<"Y","e","s">>,
                                 kind |-> "single", value |-> <<"y">>, element |-> 1],
                                [id |-> <<"c","1">>, label |-> <<"N","o">>,
                                 kind |-> "multi", value |-> <<"n">>, element |-> 2]>>],
    dom |-> <<InputWidget("radio", FALSE, <<"y">>),
              InputWidget("checkbox", TRUE, <<"n">>)>>]}

\* claimed identifiers for radio / checkbox questions: an id, a decorated id
\* in another case, an id that is also a letter, a label
ChoiceIdPool ==
  <<<<"o","p","t","-","a">>, <<"#","O","P","T","-","B"," ">>, <<"a">>,
    <<"L","o","n","d","o","n">>>>

\* free-form payloads for radio / checkbox questions
ChoiceTextPool ==
  {[kind |-> "undefined"],
   [kind |-> "string", s |-> <<"p","a","r","i","s">>],
   [kind |-> "string", s |-> <<"P","a","r","i","s",","," ","F","r","a","n","c","e">>],
   [kind |-> "string", s |-> <<"(","2",")">>],
   [kind |-> "array", a |-> <<<<"L","o","n","d","o","n">>, <<"z","z">>>>]}

TextPayloadPool ==
  {[kind |-> "undefined"],
   [kind |-> "string", s |-> <<>>],
   [kind |-> "string", s |-> <<"4"," ","2">>],
   [kind |-> "string", s |-> <<" ","x",","," ","y"," ">>],
   [kind |-> "array", a |-> <<<<>>>>],
   [kind |-> "array", a |-> <<<<"x"," ">>, <<"y">>>>]}

\* claimed identifiers for dropdown questions: choice ids as parsed, one in
\* another case and decorated, one of the option with the padded value
SelectIdPool ==
  {<<"s","1",":",":","r","e","d">>, <<"s","1",":",":","b","l","u","e">>,
   <<"s","2",":",":","r","e","d">>, <<"[","S","1",":",":","R","E","D","]">>,
   <<"s","2",":",":","p","a","d">>}

SelectTextPool ==
  {[kind |-> "undefined"],
   [kind |-> "string", s |-> <<"b","l","u","e">>],
   [kind |-> "string", s |-> <<"w","i","n","e",","," ","R","E","D">>],
   [kind |-> "array", a |-> <<<<"R","e","d">>, <<"p","a","d">>>>]}

\* the arrays of at most MaxIds claimed identifiers, in any order
IdSeqs(pool) == UNION {[1..n -> pool] : n \in 0..MaxIds}

\* the arrays of at most MaxIds distinct identifiers of pool, in pool order
IdSubSeqs(pool) ==
  {[i \in 1..Len(at) |-> pool[at[i]]] :
     at \in {a \in UNION {[1..n -> 1..Len(pool)] : n \in 0..MaxIds} :
               \A i \in 1..(Len(a) - 1) : a[i] < a[i + 1]}}

IdsFor(type) ==
  IF type = "select" THEN IdSeqs(SelectIdPool)
  ELSE IF type = "text" THEN {<<>>}
  ELSE IdSubSeqs(ChoiceIdPool)

TextsFor(type) ==
  IF type = "select" THEN SelectTextPool
  ELSE IF type = "text" THEN TextPayloadPool
  ELSE ChoiceTextPool

(***************************************************************************)
(* The parts of the content script that a behaviour does not exercise stay *)
(* in their state after construction.                                      *)
(***************************************************************************)
IdleLetters ==
  /\ choiceIndex = 0
  /\ payloadLetter = <<>>
  /\ resolutionLetter = <<>>
  /\ derived = {}

IdleRegistry ==
  /\ entries = <<>>
  /\ page = [href |-> <<>>, pathname |-> <<>>,
             canvasQuestions |-> FALSE, wileyContainers |-> FALSE]
  /\ detected = "undefined"
  /\ consulted = <<>>
  /\ detectCalls = 0

\* new Map()
EmptyRegistry == [k \in {} |-> {}]

NoAttach == [element |-> 0, fallbackIndex |-> 0, key |-> <<>>, registered |-> FALSE]

IdleAttach ==
  /\ containers = <<>>
  /\ registry = EmptyRegistry
  /\ registryBefore = EmptyRegistry
  /\ attached = NoAttach
  /\ qaButtons = <<>>
  /\ attachCalls = 0

IdleObserve ==
  /\ platformAdapter = "canvas"
  /\ parentElement = <<>>
  /\ nodes = <<>>
  /\ processed = {}
  /\ deliveries = <<>>
  /\ skipped = {}
  /\ qaButton = {}
  /\ subscription = "none"
  /\ pending = FALSE
  /\ debounceTimer = FALSE
  /\ initialTimer = FALSE
  /\ urlTimers = 0
  /\ urlChanged = FALSE

NoPageInfo == [questionNumber |-> <<"null">>, hashQuestion |-> <<"null">>]

IdleParse ==
  /\ parser = "canvas"
  /\ liveElement = <<>>
  /\ liveBefore = <<>>
  /\ parseIndex = 0
  /\ pageInfo = NoPageInfo
  /\ parsedQuestions = <<>>

\* QuestionAssistant.state = "idle" (questionAssistant.ts 35)
IdleSolve ==
  /\ assistantState = "idle"
  /\ attempts = <<>>
  /\ renderings = <<>>
  /\ attachedGeneration = 0
  /\ inFlight = 0
  /\ clicks = 0
  /\ solveScenario = [question |-> [type |-> "unknown", choices |-> <<>>], dom |-> <<>>]

IdleApply ==
  /\ question = [type |-> "unknown", choices |-> <<>>]
  /\ dom = <<>>
  /\ before = <<>>
  /\ events = <<>>
  /\ answerChoiceIds = <<>>
  /\ answerText = [kind |-> "undefined"]
  /\ result = Failure("")
  /\ calls = 0

(***************************************************************************)
(* State machine: one applyAnswer call per step on the question at hand    *)
(***************************************************************************)
InitWith(scenarios) ==
  \E s \in scenarios :
    /\ question = s.question
    /\ dom = s.dom
    /\ before = s.dom
    /\ events = NoEvents(s.dom)
    /\ answerChoiceIds = <<>>
    /\ answerText = [kind |-> "undefined"]
    /\ result = Failure("")
    /\ calls = 0
    /\ IdleLetters
    /\ IdleRegistry
    /\ IdleAttach
    /\ IdleObserve
    /\ IdleParse
    /\ IdleSolve

\* one call of applyAnswer with the given suggestion
Call(ids, text) ==
  \E outcome \in {applyAnswer(question, dom, ids, text)} :
     /\ dom' = outcome.dom
     /\ events' = outcome.events
     /\ result' = outcome.result
     /\ before' = dom
     /\ answerChoiceIds' = ids
     /\ answerText' = text
     /\ calls' = 1
     /\ UNCHANGED question
     /\ UNCHANGED outsideApply

FirstCall(type) ==
  /\ calls = 0
  /\ question.type = type
  /\ \E ids \in IdsFor(type), text \in TextsFor(type) : Call(ids, text)

ApplySingle == FirstCall("single")

ApplyMulti == FirstCall("multi")

ApplyText == FirstCall("text")

ApplySelect == FirstCall("select")

ApplyUnknown == FirstCall("unknown")

\* the same suggestion applied once more to the same question
ApplyAgain ==
  /\ calls = 1
  /\ Call(answerChoiceIds, answerText)

Init ==
  InitWith(SingleScenarios \cup MultiScenarios \cup TextScenarios
             \cup SelectScenarios \cup UnknownScenarios)

Next ==
  \/ ApplySingle
  \/ ApplyMulti
  \/ ApplyText
  \/ ApplySelect
  \/ ApplyUnknown
  \/ ApplyAgain

Spec == Init /\ [][Next]_vars

InitOther ==
  InitWith(SingleScenarios \cup MultiScenarios \cup TextScenarios \cup UnknownScenarios)

NextOther ==
  \/ ApplySingle
  \/ ApplyMulti
  \/ ApplyText
  \/ ApplyUnknown
  \/ ApplyAgain

SpecOther == InitOther /\ [][NextOther]_vars

InitSingle == InitWith(SingleScenarios)

NextSingle == ApplySingle \/ ApplyAgain

SpecSingle == InitSingle /\ [][NextSingle]_vars

InitMulti == InitWith(MultiScenarios)

NextMulti == ApplyMulti \/ ApplyAgain

SpecMulti == InitMulti /\ [][NextMulti]_vars

InitText == InitWith(TextScenarios)

NextText == ApplyText \/ ApplyAgain

SpecText == InitText /\ [][NextText]_vars

InitSelect == InitWith(SelectScenarios)

NextSelect == ApplySelect \/ ApplyAgain

SpecSelect == InitSelect /\ [][NextSelect]_vars

(***************************************************************************)
(* Choice letters: the letter of the choice at choiceIndex, derived by the  *)
(* copy of content/index.ts for the request payload (lines 192, 251) and   *)
(* by the copy of applyAnswer.ts for answer resolution (lines 239, 289).   *)
(***************************************************************************)
MaxIndex == 705

InitLetters ==
  /\ choiceIndex \in -1..MaxIndex
  /\ payloadLetter = <<>>
  /\ resolutionLetter = <<>>
  /\ derived = {}
  /\ IdleApply
  /\ IdleRegistry
  /\ IdleAttach
  /\ IdleObserve
  /\ IdleParse
  /\ IdleSolve

DeriveForPayload ==
  /\ "payload" \notin derived
  /\ payloadLetter' = deriveChoiceLetterOfPayload(choiceIndex)
  /\ derived' = derived \cup {"payload"}
  /\ UNCHANGED <<choiceIndex, resolutionLetter>>
  /\ UNCHANGED outsideLetters

DeriveForResolution ==
  /\ "resolution" \notin derived
  /\ resolutionLetter' = deriveChoiceLetter(choiceIndex)
  /\ derived' = derived \cup {"resolution"}
  /\ UNCHANGED <<choiceIndex, payloadLetter>>
  /\ UNCHANGED outsideLetters

NextLetters == DeriveForPayload \/ DeriveForResolution

SpecLetters == InitLetters /\ [][NextLetters]_vars

(***************************************************************************)
(* PlatformRegistry (platforms/registry.ts) with the adapters and the URL  *)
(* patterns that platforms/index.ts registers.  A pattern is a literal     *)
(* with the i flag and without the g flag: its test is a case-insensitive  *)
(* substring test that keeps no position between calls.                    *)
(***************************************************************************)
MaxEntries == 3

Adapters == {"canvas", "wiley"}

CanvasPatterns == <<<<"i","n","s","t","r","u","c","t","u","r","e",".","c","o","m">>, <<"c","a","n","v","a","s",".">>>>

WileyPatterns == <<<<"e","d","u","c","a","t","i","o","n",".","w","i","l","e","y",".","c","o","m">>, <<"w","i","l","e","y","p","l","u","s",".","c","o","m">>>>

\* pattern.test(text) of a literal pattern with the i flag
test(pattern, text) == includes(toLowerCase(text), pattern)

Hosts ==
  {<<"x",".","I","n","s","t","r","u","c","t","u","r","e",".","c","o","m">>,
   <<"c","a","n","v","a","s",".","w","i","l","e","y","p","l","u","s",".","c","o","m">>,
   <<"e","d","u","c","a","t","i","o","n",".","w","i","l","e","y",".","c","o","m">>,
   <<"e","x","a","m","p","l","e",".","o","r","g">>}

Paths == {<<"/","q","u","i","z","z","e","s","/","1">>, <<"/","Q","u","i","z","z","e","s">>, <<"/","h","o","m","e">>}

\* window.location and what the two adapters look for in the document
Pages ==
  {[href |-> <<"h","t","t","p","s",":","/","/">> \o h \o q, pathname |-> q,
    canvasQuestions |-> c, wileyContainers |-> w] :
     h \in Hosts, q \in Paths, c \in BOOLEAN, w \in BOOLEAN}

\* isQuizPage of the Canvas and of the Wiley adapter
isQuizPage(adapter, p) ==
  IF adapter = "canvas"
  THEN IF ~test(<<"q","u","i","z","z","e","s">>, p.pathname) THEN FALSE
       ELSE p.canvasQuestions
  ELSE IF ~(test(WileyPatterns[1], p.href) \/ test(WileyPatterns[2], p.href))
       THEN FALSE
       ELSE p.wileyContainers

\* entry.urlPatterns.some(pattern => pattern.test(window.location.href))
urlMatches(entry, p) ==
  \E i \in 1..Len(entry.urlPatterns) : test(entry.urlPatterns[i], p.href)

\* the loop taken to return the first entry whose URL matches, whether or
\* not its adapter confirms the page
DetectByUrlOnly(all, i, p, asked) ==
  IF \E k \in i..Len(all) : urlMatches(all[k], p)
  THEN [adapter |-> all[CHOOSE k \in i..Len(all) :
                          /\ urlMatches(all[k], p)
                          /\ \A j \in i..(k - 1) : ~urlMatches(all[j], p)].adapter,
        consulted |-> asked]
  ELSE [adapter |-> "undefined", consulted |-> asked]

\* the loop of detect from entry i on; asked lists the entries consulted
RECURSIVE DetectFrom(_, _, _, _)
DetectFrom(all, i, p, asked) ==
  IF i > Len(all) THEN [adapter |-> "undefined", consulted |-> asked]
  ELSE IF ~urlMatches(all[i], p) THEN DetectFrom(all, i + 1, p, asked)
  ELSE IF isQuizPage(all[i].adapter, p)
       THEN [adapter |-> all[i].adapter, consulted |-> Append(asked, i)]
       ELSE DetectFrom(all, i + 1, p, Append(asked, i))

detect(all, p) == DetectFrom(all, 1, p, <<>>)

InitRegistry ==
  /\ entries = <<>>
  /\ page \in Pages
  /\ detected = "undefined"
  /\ consulted = <<>>
  /\ detectCalls = 0
  /\ IdleApply
  /\ IdleLetters
  /\ IdleAttach
  /\ IdleObserve
  /\ IdleParse
  /\ IdleSolve

\* register(adapter, urlPatterns, hostPatterns)
Register ==
  /\ detectCalls = 0
  /\ Len(entries) < MaxEntries
  /\ \E adapter \in Adapters, urlPatterns \in {CanvasPatterns, WileyPatterns} :
        entries' = Append(entries, [adapter |-> adapter, urlPatterns |-> urlPatterns])
  /\ UNCHANGED <<page, detected, consulted, detectCalls>>
  /\ UNCHANGED outsideRegistry

Detect ==
  /\ detectCalls = 0
  /\ \E found \in {detect(entries, page)} :
        /\ detected' = found.adapter
        /\ consulted' = found.consulted
  /\ detectCalls' = 1
  /\ UNCHANGED <<entries, page>>
  /\ UNCHANGED outsideRegistry

NextRegistry == Register \/ Detect

SpecRegistry == InitRegistry /\ [][NextRegistry]_vars

(***************************************************************************)
(* attachAssistant and ensureUniqueId (content/index.ts 74-101).  The id   *)
(* of a container is that of deriveQuestionId of questionParser.ts.  An    *)
(* attribute that is absent is Null, which no string equals: a string is a *)
(* sequence of single characters.                                          *)
(***************************************************************************)
MaxContainers == 2

MaxAttach == 3

Null == <<"null">>

\* a ?? b
Coalesce(a, b) == IF a = Null THEN b ELSE a

\* deriveQuestionId of questionParser.ts
deriveQuestionId(element, fallbackIndex) ==
  LET datasetId == Coalesce(element.dataQuestionId, Coalesce(element.id, element.dataId))
  IN IF datasetId # Null /\ datasetId # <<>> THEN datasetId
     ELSE <<"c","a","n","v","a","s","-","q","u","e","s","t","i","o","n","-">> \o String(fallbackIndex)

ContainerOf(dataQuestionId, id, dataId, cqaButton) ==
  [dataQuestionId |-> dataQuestionId, id |-> id, dataId |-> dataId,
   cqaButton |-> cqaButton]

\* question containers: their identifying attributes and whether the page
\* itself holds an element of class cqa-button inside them
ContainerPool ==
  {ContainerOf(Null, Null, Null, FALSE),
   ContainerOf(<<"q">>, Null, Null, FALSE),
   ContainerOf(<<>>, <<"q">>, Null, FALSE),
   ContainerOf(Null, <<"q","-","1">>, Null, FALSE),
   ContainerOf(Null, <<"c","a","n","v","a","s","-","q","u","e","s","t","i","o","n","-","0">>, Null, FALSE),
   ContainerOf(Null, Null, <<"q">>, FALSE),
   ContainerOf(<<"q">>, Null, Null, TRUE)}

\* registry.has(key)
has(map, key) == key \in DOMAIN map

\* registry.set(key, entry)
set(map, key, entry) ==
  [k \in DOMAIN map \cup {key} |-> IF k = key THEN entry ELSE map[k]]

\* `${baseId}-${suffix}`
Candidate(baseId, suffix) == baseId \o <<"-">> \o String(suffix)

\* ensureUniqueId that always takes the first suffix
ensureUniqueIdFirstSuffix(map, baseId) ==
  IF ~has(map, baseId) THEN baseId ELSE Candidate(baseId, 1)

RECURSIVE SuffixLoop(_, _, _)
SuffixLoop(map, baseId, suffix) ==
  IF has(map, Candidate(baseId, suffix))
  THEN SuffixLoop(map, baseId, suffix + 1)
  ELSE Candidate(baseId, suffix)

ensureUniqueId(map, baseId) ==
  IF ~has(map, baseId) THEN baseId ELSE SuffixLoop(map, baseId, 1)

InitAttach ==
  /\ containers \in [1..MaxContainers -> ContainerPool]
  /\ registry = EmptyRegistry
  /\ registryBefore = EmptyRegistry
  /\ attached = NoAttach
  /\ qaButtons = [e \in 1..MaxContainers |-> 0]
  /\ attachCalls = 0
  /\ IdleApply
  /\ IdleLetters
  /\ IdleRegistry
  /\ IdleObserve
  /\ IdleParse
  /\ IdleSolve

\* attachAssistant(element, index).  The guard looks for class cqa-button;
\* the button that QuestionAssistant prepends has class qa-button
\* (questionAssistant.ts 125), so it does not satisfy the guard.
AttachWith(element, fallbackIndex, uniqueId) ==
  /\ attachCalls' = attachCalls + 1
  /\ registryBefore' = registry
  /\ UNCHANGED containers
  /\ UNCHANGED outsideAttach
  /\ IF containers[element].cqaButton
     THEN /\ attached' = [element |-> element, fallbackIndex |-> fallbackIndex,
                          key |-> <<>>, registered |-> FALSE]
          /\ UNCHANGED <<registry, qaButtons>>
     ELSE /\ attached' = [element |-> element, fallbackIndex |-> fallbackIndex,
                          key |-> uniqueId, registered |-> TRUE]
          /\ registry' = set(registry, uniqueId,
                             [element |-> element, fallbackIndex |-> fallbackIndex])
          /\ qaButtons' = [qaButtons EXCEPT ![element] = @ + 1]

\* a container is delivered with its position among the candidates present,
\* which is at most the number of containers before it in the document
attachAssistant ==
  /\ attachCalls < MaxAttach
  /\ \E element \in 1..Len(containers), fallbackIndex \in 0..(MaxContainers - 1) :
        /\ fallbackIndex < element
        /\ AttachWith(element, fallbackIndex,
                      ensureUniqueId(registry,
                                     deriveQuestionId(containers[element], fallbackIndex)))

NextAttach == attachAssistant

SpecAttach == InitAttach /\ [][NextAttach]_vars

(***************************************************************************)
(* observeQuestions of the Canvas adapter (platforms/canvas/index.ts       *)
(* 39-63) and of the Wiley adapter (platforms/wiley/index.ts 139-208).     *)
(* An element of the page is                                               *)
(*   "absent"    not in the document,                                      *)
(*   "plain"     in the document, not matching the container signature,    *)
(*   "disabled"  a candidate that passes isValidQuestionContainer and      *)
(*               whose widgets are all disabled (Canvas); a container of   *)
(*               findQuestionContainers that is locked or without an       *)
(*               enabled widget (Wiley),                                   *)
(*   "container" a candidate that passes isValidQuestionContainer and      *)
(*               holds an enabled widget (Canvas); a container of          *)
(*               findQuestionContainers with an enabled widget, not locked *)
(*               (Wiley).                                                  *)
(* parentElement gives the element an element lies inside; at most one     *)
(* element of the page lies inside another.  The Canvas elements are in    *)
(* document order, the Wiley elements in the order of their "Part" headers.*)
(* Both observers are created with { childList: true, subtree: true }: an  *)
(* insertion or removal of nodes queues a record, a change of an attribute *)
(* or of a class does not.  disconnect() discards the records queued.      *)
(* The callback is that of content/index.ts, attachAssistant, which        *)
(* prepends the assistant button (class qa-button) to the container.       *)
(***************************************************************************)
MaxElements == 2

MaxDeliveries == 2

MaxUrlTimers == 1

PageElements == 1..MaxElements

AttachedKinds(a) == {"plain", "disabled", "container"}

\* the ways elements lie inside one another: none does, or one of the
\* first two lies inside the other
Nestings ==
  {p \in [PageElements -> 0..MaxElements] :
     /\ \A e \in PageElements : p[e] # 0 => (e <= 2 /\ p[e] <= 2 /\ p[e] # e)
     /\ Cardinality({e \in PageElements : p[e] # 0}) <= 1}

\* a.contains(b)
contains(a, b) == a = b \/ parentElement[b] = a

\* an element is in the document only inside an element that is, and an
\* element that holds an enabled widget lies inside none whose widgets
\* are all disabled
Consistent(kinds) ==
  \A e \in PageElements :
     parentElement[e] # 0 =>
        /\ (kinds[parentElement[e]] = "absent" => kinds[e] = "absent")
        /\ (kinds[e] = "container" => kinds[parentElement[e]] # "disabled")

\* the elements that match the selectors (Canvas), that are the container
\* of a "Part" header (Wiley)
CandidateElements == {e \in PageElements : nodes[e] \in {"disabled", "container"}}

\* findQuestionContainers (Wiley 50-76): the containers from element e on,
\* one left out when a container already kept holds it or lies inside it
RECURSIVE ContainersFrom(_, _)
ContainersFrom(e, kept) ==
  IF e > MaxElements THEN kept
  ELSE IF e \in CandidateElements /\ \A x \in kept : ~contains(x, e) /\ ~contains(e, x)
  THEN ContainersFrom(e + 1, kept \cup {e})
  ELSE ContainersFrom(e + 1, kept)

\* the elements a discovery pass iterates over: candidates that pass
\* isValidQuestionContainer (Canvas), findQuestionContainers() (Wiley)
Found ==
  IF platformAdapter = "canvas" THEN CandidateElements ELSE ContainersFrom(1, {})

\* container.querySelector('.qa-button') (Wiley 150)
hasQaButton(e) ==
  \E x \in qaButton : contains(e, x) /\ nodes[x] # "absent"

\* what collect asks of a container besides processed: nothing (Canvas);
\* no assistant button, not locked, an enabled widget (Wiley 150-169)
Accepted(e) ==
  platformAdapter = "wiley" => (nodes[e] = "container" /\ ~hasQaButton(e))

\* the elements a pass delivers, were processed not consulted
EligibleAgain == {e \in Found : Accepted(e)}

\* the elements a pass delivers to the callback
Eligible == {e \in Found : e \notin processed /\ Accepted(e)}

\* one run of collect; observing tells whether the observer is connected,
\* so that the insertion of a button queues a record, queued whether
\* records are waiting already
collect(observing, queued) ==
  /\ processed' = processed \cup Eligible
  /\ deliveries' =
       [e \in PageElements |->
          IF e \in Eligible /\ deliveries[e] < MaxDeliveries
          THEN deliveries[e] + 1 ELSE deliveries[e]]
  /\ qaButton' = qaButton \cup Eligible
  /\ skipped' = skipped \cup (Found \cap processed)
  /\ pending' = (queued \/ (observing /\ Eligible # {}))

InitObserve ==
  /\ platformAdapter \in {"canvas", "wiley"}
  /\ parentElement \in Nestings
  /\ nodes \in [PageElements -> {"absent"} \cup AttachedKinds(platformAdapter)]
  /\ Consistent(nodes)
  /\ processed = {}
  /\ deliveries = [e \in PageElements |-> 0]
  /\ skipped = {}
  /\ qaButton = {}
  /\ subscription = "none"
  /\ pending = FALSE
  /\ debounceTimer = FALSE
  /\ initialTimer = FALSE
  /\ urlTimers = 0
  /\ urlChanged = FALSE
  /\ IdleApply
  /\ IdleLetters
  /\ IdleRegistry
  /\ IdleAttach
  /\ IdleParse
  /\ IdleSolve

\* observeQuestions(callback): Canvas collects at once and then connects
\* the observer; Wiley defers the first pass by a timer
observeQuestions ==
  /\ subscription = "none"
  /\ subscription' = "active"
  /\ IF platformAdapter = "canvas"
     THEN /\ collect(FALSE, FALSE)
          /\ UNCHANGED initialTimer
     ELSE /\ initialTimer' = TRUE
          /\ UNCHANGED <<processed, deliveries, skipped, qaButton, pending>>
  /\ UNCHANGED <<platformAdapter, parentElement, nodes, debounceTimer, urlTimers, urlChanged>>
  /\ UNCHANGED outsideObserve

\* the MutationObserver callback: collect (Canvas), restart of the debounce
\* timer (Wiley)
MutationCallback ==
  /\ subscription = "active"
  /\ pending
  /\ IF platformAdapter = "canvas"
     THEN /\ collect(TRUE, FALSE)
          /\ UNCHANGED debounceTimer
     ELSE /\ debounceTimer' = TRUE
          /\ pending' = FALSE
          /\ UNCHANGED <<processed, deliveries, skipped, qaButton>>
  /\ UNCHANGED <<platformAdapter, parentElement, nodes, subscription, initialTimer, urlTimers, urlChanged>>
  /\ UNCHANGED outsideObserve

\* setTimeout(collect, 300) of the Wiley observer fires
DebounceFire ==
  /\ debounceTimer
  /\ debounceTimer' = FALSE
  /\ collect(subscription = "active", pending)
  /\ UNCHANGED <<platformAdapter, parentElement, nodes, subscription, initialTimer, urlTimers, urlChanged>>
  /\ UNCHANGED outsideObserve

\* setTimeout(collect, 800) of the Wiley subscription fires; the disposer
\* does not cancel it
InitialFire ==
  /\ initialTimer
  /\ initialTimer' = FALSE
  /\ collect(subscription = "active", pending)
  /\ UNCHANGED <<platformAdapter, parentElement, nodes, subscription, debounceTimer, urlTimers, urlChanged>>
  /\ UNCHANGED outsideObserve

\* the setInterval callback of the Wiley subscription sees a new address
UrlTick ==
  /\ platformAdapter = "wiley"
  /\ subscription = "active"
  /\ urlChanged
  /\ urlTimers < MaxUrlTimers
  /\ urlChanged' = FALSE
  /\ urlTimers' = urlTimers + 1
  /\ UNCHANGED <<platformAdapter, parentElement, nodes, processed, deliveries, skipped, qaButton,
                 subscription, pending, debounceTimer, initialTimer>>
  /\ UNCHANGED outsideObserve

\* a setTimeout(collect, 800) scheduled by the URL watcher fires; the
\* disposer does not cancel it
UrlTimerFire ==
  /\ urlTimers > 0
  /\ urlTimers' = urlTimers - 1
  /\ collect(subscription = "active", pending)
  /\ UNCHANGED <<platformAdapter, parentElement, nodes, subscription, debounceTimer, initialTimer, urlChanged>>
  /\ UNCHANGED outsideObserve

\* the disposer: observer.disconnect() (both), clearInterval(urlWatcher)
\* and clearTimeout(debounceTimer) (Wiley)
Dispose ==
  /\ subscription = "active"
  /\ subscription' = "disposed"
  /\ pending' = FALSE
  /\ debounceTimer' = FALSE
  /\ UNCHANGED <<platformAdapter, parentElement, nodes, processed, deliveries, skipped, qaButton,
                 initialTimer, urlTimers, urlChanged>>
  /\ UNCHANGED outsideObserve

\* the page changes the kind of element e; a change of the child list
\* queues a record while the observer is connected
PageChange(e, kind, childList) ==
  /\ nodes' = [x \in PageElements |->
                 IF x = e THEN kind
                 ELSE IF kind = "absent" /\ parentElement[x] = e THEN "absent"
                 ELSE nodes[x]]
  /\ Consistent(nodes')
  /\ pending' = (pending \/ (childList /\ subscription \in {"active", "watching"}))
  /\ UNCHANGED <<platformAdapter, parentElement, processed, deliveries, skipped, qaButton, subscription,
                 debounceTimer, initialTimer, urlTimers, urlChanged>>
  /\ UNCHANGED outsideObserve

\* the page inserts an element
InsertNode ==
  \E e \in PageElements, kind \in AttachedKinds(platformAdapter) :
     /\ nodes[e] = "absent"
     /\ PageChange(e, kind, TRUE)

\* the page removes an element
RemoveNode ==
  \E e \in PageElements :
     /\ nodes[e] # "absent"
     /\ PageChange(e, "absent", TRUE)

\* the page sets or removes a class or an attribute of an element, which
\* then matches the signature or no more does
AttributeChange ==
  \E e \in PageElements :
     /\ nodes[e] \in {"plain", "container"}
     /\ PageChange(e, IF nodes[e] = "plain" THEN "container" ELSE "plain", FALSE)

\* the page enables or disables the widgets of a container
WidgetToggle ==
  \E e \in PageElements :
     /\ nodes[e] \in {"disabled", "container"}
     /\ PageChange(e, IF nodes[e] = "disabled" THEN "container" ELSE "disabled", FALSE)

\* the single-page application navigates
UrlChange ==
  /\ platformAdapter = "wiley"
  /\ ~urlChanged
  /\ urlChanged' = TRUE
  /\ UNCHANGED <<platformAdapter, parentElement, nodes, processed, deliveries, skipped, qaButton,
                 subscription, pending, debounceTimer, initialTimer, urlTimers>>
  /\ UNCHANGED outsideObserve

NextObserve ==
  \/ observeQuestions
  \/ MutationCallback
  \/ DebounceFire
  \/ InitialFire
  \/ UrlTick
  \/ UrlTimerFire
  \/ Dispose
  \/ InsertNode
  \/ RemoveNode
  \/ AttributeChange
  \/ WidgetToggle
  \/ UrlChange

SpecObserve == InitObserve /\ [][NextObserve]_vars

\* the browser runs every observer callback and every timer that is due
ObserveFairness ==
  /\ WF_vars(MutationCallback)
  /\ WF_vars(DebounceFire)
  /\ WF_vars(InitialFire)
  /\ WF_vars(UrlTick)
  /\ WF_vars(UrlTimerFire)

SpecObserveFair == InitObserve /\ [][NextObserve]_vars /\ ObserveFairness

(***************************************************************************)
(* parseQuestion of the Canvas adapter (platforms/canvas/index.ts 68-183)  *)
(* and of the Wiley adapter (platforms/wiley/index.ts 213-234).            *)
(* A question container is a record of its identifying attributes, the     *)
(* text of its text nodes, the part number its text names (Wiley), and its *)
(* widgets in document order.  A widget carries its id, name and value     *)
(* properties (empty when the attribute is absent), the text that the      *)
(* label lookups of the adapter find for it (labelText, Null when they     *)
(* find none), its placeholder attribute and, for a dropdown, its options. *)
(* aria-label and title of a dropdown are taken to be absent.              *)
(***************************************************************************)
\* sanitizeLabel: collapse whitespace and trim; empty for null or undefined
sanitizeLabel(raw) ==
  IF raw = Null \/ raw = <<>> THEN <<>> ELSE trim(CollapseWhitespace(raw))

\* normalizeValue: the trimmed string, undefined when that is empty
normalizeValue(raw) == IF raw = Null THEN <<>> ELSE trim(raw)

\* a || b on strings
Or(a, b) == IF a # <<>> /\ a # Null THEN a ELSE b

\* the positions, in document order, of the widgets with one of the tags
RECURSIVE PositionsFrom(_, _, _)
PositionsFrom(widgets, tags, i) ==
  IF i > Len(widgets) THEN <<>>
  ELSE (IF widgets[i].tag \in tags THEN <<i>> ELSE <<>>)
         \o PositionsFrom(widgets, tags, i + 1)

\* element.querySelectorAll of the widgets with one of the tags
querySelectorAll(container, tags) == PositionsFrom(container.widgets, tags, 1)

\* deriveQuestionId of the Canvas adapter
CanvasDeriveQuestionId(element, fallbackIndex) ==
  LET datasetId == Coalesce(element.dataQuestionId, Coalesce(element.id, element.dataId))
  IN IF datasetId # Null /\ datasetId # <<>> THEN datasetId
     ELSE <<"q","u","e","s","t","i","o","n","-">> \o String(fallbackIndex)

\* deriveChoiceLabel: the text the lookups found, else the value
deriveChoiceLabel(input) ==
  LET label == sanitizeLabel(Coalesce(input.labelText, <<>>))
  IN IF label # <<>> THEN label ELSE sanitizeLabel(input.value)

\* the choice of a radio or checkbox (canvas 114-120, 132-138)
CanvasCheckableChoice(id, kind, container, position) ==
  LET input == container.widgets[position]
  IN [id |-> Or(input.id, id \o <<"-","c","h","o","i","c","e","-">> \o input.value),
      label |-> deriveChoiceLabel(input),
      kind |-> kind,
      value |-> normalizeValue(input.value),
      element |-> position]

\* deriveSelectStableId; index is 0-based
deriveSelectStableId(select, n) ==
  ReplaceDelimiter(
    Or(normalizeValue(select.id),
       Or(normalizeValue(select.name), <<"s","e","l","e","c","t","-">> \o String(n + 1))))

\* deriveSelectLabel; index is 0-based
deriveSelectLabel(select, n) ==
  Or(sanitizeLabel(select.name),
     Or(sanitizeLabel(select.id), <<"D","r","o","p","d","o","w","n"," ">> \o String(n + 1)))

\* the choices of the options of one dropdown (canvas 426-441)
CanvasOptionChoices(select, position, n) ==
  LET kept == SelectSeq(select.options, LAMBDA o : normalizeValue(o.value) # <<>>)
  IN [i \in 1..Len(kept) |->
        [id |-> deriveSelectStableId(select, n) \o <<":", ":">>
                  \o normalizeValue(kept[i].value),
         label |-> deriveSelectLabel(select, n) \o <<":", " ">>
                     \o Or(sanitizeLabel(kept[i].text), normalizeValue(kept[i].value)),
         kind |-> "select",
         value |-> normalizeValue(kept[i].value),
         element |-> position]]

\* buildSelectChoices
buildSelectChoices(container, selects) ==
  Flatten([n \in 1..Len(selects) |->
             CanvasOptionChoices(container.widgets[selects[n]], selects[n], n - 1)])

\* the choice of a text field (canvas 164-170); index is 0-based
CanvasTextChoice(id, container, position, n) ==
  LET field == container.widgets[position]
  IN [id |-> Or(field.id, id \o <<"-","t","e","x","t","-">> \o String(n + 1)),
      label |-> Coalesce(field.placeholder, <<"F","r","e","e"," ","r","e","s","p","o","n","s","e">>),
      kind |-> "text",
      value |-> normalizeValue(field.value),
      element |-> position]

\* extractTextWithSelectPlaceholders works on a clone of the text element,
\* in which it replaces each dropdown by " [Dropdown n] "; the dropdowns
\* are taken to follow the text
RECURSIVE DropdownPlaceholders(_, _)
DropdownPlaceholders(count, n) ==
  IF n > count THEN <<>>
  ELSE <<" ","[","D","r","o","p","d","o","w","n"," ">> \o String(n) \o <<"]", " ">>
         \o DropdownPlaceholders(count, n + 1)

extractTextWithSelectPlaceholders(container, selects) ==
  container.text \o DropdownPlaceholders(Len(selects), 1)

\* the result of a parseQuestion call: the question returned and the
\* container as the call leaves it
Parsed(id, type, text, choices, container) ==
  [question |-> [id |-> id, type |-> type, text |-> text, choices |-> choices],
   container |-> container]

CanvasParseWith(id, text, container, radioInputs, checkboxInputs, selectChoices, textField) ==
  IF radioInputs # <<>>
  THEN Parsed(id, "single", text,
              [i \in 1..Len(radioInputs) |->
                 CanvasCheckableChoice(id, "single", container, radioInputs[i])],
              container)
  ELSE IF checkboxInputs # <<>>
  THEN Parsed(id, "multi", text,
              [i \in 1..Len(checkboxInputs) |->
                 CanvasCheckableChoice(id, "multi", container, checkboxInputs[i])],
              container)
  ELSE IF selectChoices # <<>>
  THEN Parsed(id, "select", text, selectChoices, container)
  ELSE IF textField # <<>>
  THEN Parsed(id, "text", text,
              [i \in 1..Len(textField) |->
                 CanvasTextChoice(id, container, textField[i], i - 1)],
              container)
  ELSE Parsed(id, "unknown", text, <<>>, container)

\* parseQuestion of the Canvas adapter
CanvasParseQuestion(container, fallbackIndex) ==
  LET selectInputs == querySelectorAll(container, {"select"})
  IN CanvasParseWith(
       CanvasDeriveQuestionId(container, fallbackIndex),
       sanitizeLabel(IF selectInputs # <<>>
                     THEN extractTextWithSelectPlaceholders(container, selectInputs)
                     ELSE container.text),
       container,
       querySelectorAll(container, {"radio"}),
       querySelectorAll(container, {"checkbox"}),
       buildSelectChoices(container, selectInputs),
       querySelectorAll(container, {"text"}) \o querySelectorAll(container, {"textarea"}))

\* deriveQuestionId of the Wiley adapter: container.part is the number that
\* /Part\s+(\d+)/i finds in the text of the container, doc.questionNumber
\* what extractQuestionNumber returns, doc.hashQuestion the number that
\* /question\/(\d+)/i finds in the URL hash; each is Null when there is none
WileyDeriveQuestionId(element, fallbackIndex, doc) ==
  IF element.part # Null
  THEN <<"w","i","l","e","y","-","q">> \o Coalesce(doc.questionNumber, String(fallbackIndex))
         \o <<"-","p","a","r","t">> \o element.part
  ELSE IF doc.hashQuestion # Null
  THEN <<"w","i","l","e","y","-","q","u","e","s","t","i","o","n","-">> \o doc.hashQuestion \o <<"-">> \o String(fallbackIndex)
  ELSE <<"w","i","l","e","y","-","q","u","e","s","t","i","o","n","-">> \o String(fallbackIndex)

\* element.cloneNode(true)
cloneNode(element) == element

\* toRemove.forEach(el => el.remove()) on the inputs, textareas and selects
RemoveWidgets(element) == [element EXCEPT !.widgets = <<>>]

\* extractQuestionText that removes the widgets from the element itself
extractQuestionTextInPlace(element) ==
  [text |-> trim(CollapseWhitespace(RemoveWidgets(element).text)),
   element |-> RemoveWidgets(element)]

\* extractQuestionText: the text of a clone without its widgets, and the
\* element as the call leaves it
extractQuestionText(element) ==
  [text |-> trim(CollapseWhitespace(RemoveWidgets(cloneNode(element)).text)),
   element |-> element]

\* findLabelForRadioOrCheckbox: the text found, else the value, else undefined
findLabelForRadioOrCheckbox(input) ==
  IF input.labelText # Null /\ trim(input.labelText) # <<>>
  THEN trim(input.labelText)
  ELSE input.value

\* findLabelForTextInput: the text found, else "Answer a)", "Answer b)", ..
findLabelForTextInput(input, n) ==
  IF input.labelText # Null /\ trim(input.labelText) # <<>>
  THEN trim(input.labelText)
  ELSE <<"A","n","s","w","e","r"," ">> \o <<LowerLetters[n + 1], ")">>

\* the choice of a radio or checkbox (wiley 348-371); index is 0-based
WileyCheckableChoice(kind, prefix, container, position, n) ==
  LET input == container.widgets[position]
  IN [id |-> Or(input.id, Or(input.value, prefix \o String(n + 1))),
      label |-> Or(findLabelForRadioOrCheckbox(input),
                   Or(input.value, <<"O","p","t","i","o","n"," ">> \o String(n + 1))),
      kind |-> kind,
      value |-> input.value,
      element |-> position]

\* the choice of a text input or textarea (wiley 379-403); index is 0-based
WileyTextChoice(prefix, fallbackLabel, container, position, n) ==
  LET input == container.widgets[position]
  IN [id |-> Or(input.id, Or(input.name, prefix \o String(n + 1))),
      label |-> Or(findLabelForTextInput(input, n), fallbackLabel \o String(n + 1)),
      kind |-> "text",
      value |-> input.value,
      element |-> position]

\* an option that extractChoices skips as empty or as a placeholder
IsPlaceholderOption(option) ==
  \/ trim(option.value) = <<>>
  \/ trim(option.text) = <<>>
  \/ toLowerCase(trim(option.text)) = <<"s","e","l","e","c","t">>
  \/ includes(trim(option.text), <<"-", "-">>)

\* the choices of the options of one dropdown (wiley 410-427)
WileyOptionChoices(select, position, n) ==
  LET kept == SelectSeq(select.options, LAMBDA o : ~IsPlaceholderOption(o))
  IN [i \in 1..Len(kept) |->
        [id |-> Or(select.id, Or(select.name, <<"s","e","l","e","c","t","-">> \o String(n + 1)))
                  \o <<":", ":">> \o trim(kept[i].value),
         label |-> findLabelForTextInput(select, n) \o <<":", " ">>
                     \o trim(kept[i].text),
         kind |-> "select",
         value |-> trim(kept[i].value),
         element |-> position]]

\* extractChoices: radios, checkboxes, text inputs, textareas, dropdowns
extractChoicesOf(container, radios, checkboxes, textInputs, textareas, selects) ==
  [i \in 1..Len(radios) |->
     WileyCheckableChoice("single", <<"r","a","d","i","o","-">>, container, radios[i], i - 1)]
  \o [i \in 1..Len(checkboxes) |->
     WileyCheckableChoice("multi", <<"c","h","e","c","k","b","o","x","-">>, container, checkboxes[i], i - 1)]
  \o [i \in 1..Len(textInputs) |->
     WileyTextChoice(<<"t","e","x","t","-","i","n","p","u","t","-">>, <<"A","n","s","w","e","r"," ">>, container, textInputs[i], i - 1)]
  \o [i \in 1..Len(textareas) |->
     WileyTextChoice(<<"t","e","x","t","a","r","e","a","-">>, <<"T","e","x","t"," ","a","r","e","a"," ">>, container, textareas[i], i - 1)]
  \o Flatten([n \in 1..Len(selects) |->
                WileyOptionChoices(container.widgets[selects[n]], selects[n], n - 1)])

extractChoices(container) ==
  extractChoicesOf(container,
                   querySelectorAll(container, {"radio"}),
                   querySelectorAll(container, {"checkbox"}),
                   querySelectorAll(container, {"text"}),
                   querySelectorAll(container, {"textarea"}),
                   querySelectorAll(container, {"select"}))

\* the kinds of a list of choices
KindsOf(choices) == {choices[i].kind : i \in 1..Len(choices)}

\* determineQuestionType
determineQuestionTypeOf(choices, kinds) ==
  IF choices = <<>> THEN "unknown"
  ELSE IF "single" \in kinds /\ "multi" \notin kinds /\ "text" \notin kinds THEN "single"
  ELSE IF "multi" \in kinds /\ "single" \notin kinds /\ "text" \notin kinds THEN "multi"
  ELSE IF "select" \in kinds /\ "single" \notin kinds /\ "multi" \notin kinds THEN "select"
  ELSE IF "text" \in kinds THEN "text"
  ELSE "unknown"

determineQuestionType(choices) == determineQuestionTypeOf(choices, KindsOf(choices))

WileyParseWith(id, extracted, choices) ==
  Parsed(id, determineQuestionType(choices), extracted.text, choices, extracted.element)

\* parseQuestion of the Wiley adapter: the id, the text, then the choices
\* of the element as extractQuestionText left it
WileyParseAfterText(id, extracted) ==
  WileyParseWith(id, extracted, extractChoices(extracted.element))

WileyParseQuestion(container, fallbackIndex, doc) ==
  WileyParseAfterText(WileyDeriveQuestionId(container, fallbackIndex, doc),
                      extractQuestionText(container))

(***************************************************************************)
(* State machine of parseQuestion: calls on one container that nothing     *)
(* else changes.                                                           *)
(***************************************************************************)
MaxWidgets == 2

MaxParses == 2

ParseWidget(tag, id, name, value, labelText, placeholder, options) ==
  [tag |-> tag, id |-> id, name |-> name, value |-> value,
   labelText |-> labelText, placeholder |-> placeholder, options |-> options]

\* the widgets a container can hold: radios without id attribute, with and
\* without value; a checkbox; a text input; a textarea; a dropdown with a
\* placeholder and two options of the same value; a dropdown named like
\* the id of the former; a dropdown of a placeholder only
ParseWidgetPool ==
  {ParseWidget("radio", <<>>, <<"g">>, <<"a">>, <<" ","P","a","r","i","s"," ">>, Null, <<>>),
   ParseWidget("radio", <<>>, <<"g">>, <<>>, Null, Null, <<>>),
   ParseWidget("checkbox", <<"c","1">>, <<>>, <<"b">>, <<"R","o","m","e">>, Null, <<>>),
   ParseWidget("text", <<>>, <<"t">>, <<>>, Null, Null, <<>>),
   ParseWidget("textarea", <<"t","a">>, <<>>, <<"x">>, Null, <<"E","s","s","a","y">>, <<>>),
   ParseWidget("select", <<"s">>, <<>>, <<>>, Null, Null,
               <<[value |-> <<>>, text |-> <<"S","e","l","e","c","t">>],
                 [value |-> <<"r","e","d">>, text |-> <<"R","e","d">>],
                 [value |-> <<"r","e","d">>, text |-> <<"D","a","r","k"," "," ","r","e","d">>]>>),
   ParseWidget("select", <<>>, <<"s">>, <<"b","l","u","e">>, Null, Null,
               <<[value |-> <<"b","l","u","e">>, text |-> <<"B","l","u","e">>]>>),
   ParseWidget("select", <<>>, <<>>, <<>>, Null, Null,
               <<[value |-> <<>>, text |-> <<"-","-">>]>>)}

ParseContainers ==
  {[dataQuestionId |-> d, id |-> Null, dataId |-> Null,
    text |-> <<" ","W","h","a","t"," "," ","i","s"," ","i","t","?"," ">>, part |-> p, widgets |-> w] :
     d \in {Null, <<"q">>}, p \in {Null, <<"2">>},
     w \in UNION {[1..n -> ParseWidgetPool] : n \in 0..MaxWidgets}}

PageInfos(adapter) ==
  IF adapter = "canvas" THEN {NoPageInfo}
  ELSE {NoPageInfo,
        [questionNumber |-> <<"3">>, hashQuestion |-> Null],
        [questionNumber |-> Null, hashQuestion |-> <<"7">>]}

InitParse ==
  /\ parser \in {"canvas", "wiley"}
  /\ liveElement \in ParseContainers
  /\ liveBefore = liveElement
  /\ parseIndex \in {0, 1}
  /\ pageInfo \in PageInfos(parser)
  /\ parsedQuestions = <<>>
  /\ IdleApply
  /\ IdleLetters
  /\ IdleRegistry
  /\ IdleAttach
  /\ IdleObserve
  /\ IdleSolve

\* one parseQuestion call with its outcome
ParseCall(outcome) ==
  /\ Len(parsedQuestions) < MaxParses
  /\ parsedQuestions' = Append(parsedQuestions, outcome.question)
  /\ liveBefore' = liveElement
  /\ liveElement' = outcome.container
  /\ UNCHANGED <<parser, parseIndex, pageInfo>>
  /\ UNCHANGED outsideParse

ParseCanvas ==
  /\ parser = "canvas"
  /\ ParseCall(CanvasParseQuestion(liveElement, parseIndex))

ParseWiley ==
  /\ parser = "wiley"
  /\ ParseCall(WileyParseQuestion(liveElement, parseIndex, pageInfo))

NextParse == ParseCanvas \/ ParseWiley

SpecParse == InitParse /\ [][NextParse]_vars


(***************************************************************************)
(* Solve attempts of one question assistant.  A click on the button runs   *)
(* the click handler and the synchronous part of handleSolveRequest; the   *)
(* attempt then waits for captureQuestionImage, sends the request, and     *)
(* waits for the response of the background worker.  The host page may     *)
(* replace the widgets of the question at any time; a rendering that was   *)
(* replaced keeps its widgets, detached from the document.  A Question is  *)
(* identified by the parseQuestion call that built it: the attempt that    *)
(* made the call (0 for the call of attachAssistant) and the rendering     *)
(* whose widgets its choices refer to.                                     *)
(***************************************************************************)

MaxAttempts == 2

MaxClicks == 3

MaxRenders == 1

SolveScenarios ==
  {CheckableScenario("single", <<1, 3>>, {}, <<>>),
   TextScenario(<<>>, <<InputWidget("text", FALSE, <<>>)>>)}

\* the replies of the background worker; "rejected" stands for
\* chrome.runtime.lastError and for a missing response
SolveResponses ==
  {[status |-> st, answerChoiceIds |-> a[1], answerText |-> a[2]] :
     st \in {"rejected", "error", "timeout", "success"},
     a \in {<< <<ChoiceTemplates[1].id>>, [kind |-> "string", s |-> <<"4"," ","2">>] >>,
            << <<>>, [kind |-> "undefined"] >>}}

NoQuestion == [attempt |-> 0, generation |-> 0]

\* index.ts 78: the Question attachAssistant parsed, when the question was observed
ObservedQuestion == [attempt |-> 0, generation |-> 1]

\* index.ts 122: parseQuestion(entry.element, fallbackIndex) reads the widgets
\* that are in the container when it is called
ParsedAt(attempt, generation) == [attempt |-> attempt, generation |-> generation]

Active == {k \in 1..Len(attempts) : attempts[k].phase # "done"}

\* the click handler ignores the click
ClickIgnoredUnlessConfirmed(state, confirmed) == state = "success" /\ ~confirmed

\* questionAssistant.ts 128-141
ClickIgnored(state, confirmed) ==
  \/ state = "loading"
  \/ state = "success" /\ ~confirmed

\* index.ts 124-127: the payload is built from the Question of this attempt
buildSolvePayload(parsed) == parsed

\* the Question of attachAssistant is applied
QuestionObserved(attempt) == ObservedQuestion

\* index.ts 135: applyAnswer(parsed, ...)
QuestionToApply(attempt) == attempt.parsed

\* the exceptions leave handleSolveRequest
SettledUncaught(response, applyThrows, applyResult) ==
  IF response.status = "rejected" THEN "loading"
  ELSE IF response.status # "success" THEN response.status
  ELSE IF applyThrows THEN "loading"
  ELSE IF ~applyResult.success THEN "error"
  ELSE "success"

\* index.ts 129-151: the state the assistant is left in once sendSolveRequest
\* has settled
Settled(response, applyThrows, applyResult) ==
  IF response.status = "rejected" THEN "error"
  ELSE IF response.status # "success" THEN response.status
  ELSE IF applyThrows THEN "error"
  ELSE IF ~applyResult.success THEN "error"
  ELSE "success"

\* index.ts 109-123 and 146-151: registry.get, setLoading, parseQuestion, and
\* the catch clause when parseQuestion throws
handleSolveRequest(parseThrows) ==
  /\ attempts' = Append(attempts,
       [phase |-> IF parseThrows THEN "done" ELSE "capturing",
        parsed |-> IF parseThrows THEN NoQuestion
                   ELSE ParsedAt(Len(attempts) + 1, attachedGeneration),
        payload |-> NoQuestion,
        applied |-> NoQuestion,
        attachedAtApply |-> 0,
        applySuccess |-> FALSE,
        raised |-> IF parseThrows THEN {"parsing"} ELSE {},
        capturedAt |-> 0,
        response |-> "none",
        outcome |-> IF parseThrows THEN "error" ELSE "loading"])
  /\ assistantState' = IF parseThrows THEN "error" ELSE "loading"

InitSolve ==
  /\ solveScenario \in SolveScenarios
  /\ renderings = [g \in 1..(MaxRenders + 1) |-> solveScenario.dom]
  /\ attachedGeneration = 1
  /\ assistantState = "idle"
  /\ attempts = <<>>
  /\ inFlight = 0
  /\ clicks = 0
  /\ IdleApply
  /\ IdleLetters
  /\ IdleRegistry
  /\ IdleAttach
  /\ IdleObserve
  /\ IdleParse

\* questionAssistant.ts 128-141 and index.ts 109-123: one click on the button,
\* up to the first await of handleSolveRequest
Click ==
  /\ clicks < MaxClicks
  /\ \E confirmed \in BOOLEAN, parseThrows \in BOOLEAN :
       IF ClickIgnored(assistantState, confirmed)
       THEN /\ ~parseThrows
            /\ UNCHANGED <<assistantState, attempts>>
       ELSE /\ Len(attempts) < MaxAttempts
            /\ handleSolveRequest(parseThrows)
  /\ clicks' = clicks + 1
  /\ UNCHANGED <<renderings, attachedGeneration, inFlight, solveScenario>>
  /\ UNCHANGED outsideSolve

\* index.ts 123-127: captureQuestionImage resolves (capture.ts 14-55 turns every
\* failure into an empty screenshot), the payload is built and the request sent
CaptureResolved ==
  /\ \E k \in 1..Len(attempts), captureRaised \in BOOLEAN :
       /\ attempts[k].phase = "capturing"
       /\ attempts' = [attempts EXCEPT
            ![k].phase = "awaiting",
            ![k].payload = buildSolvePayload(attempts[k].parsed),
            ![k].capturedAt = attachedGeneration,
            ![k].raised = IF captureRaised THEN @ \cup {"capture"} ELSE @]
  /\ inFlight' = inFlight + 1
  /\ UNCHANGED <<assistantState, renderings, attachedGeneration, clicks, solveScenario>>
  /\ UNCHANGED outsideSolve

\* index.ts 127-151: sendSolveRequest settles; the answer is applied when the
\* response is a success, and the assistant leaves the loading state
ResponseArrives ==
  /\ \E k \in 1..Len(attempts), response \in SolveResponses, applyThrows \in BOOLEAN :
       LET q == QuestionToApply(attempts[k])
           applies == response.status = "success"
           outcome == applyAnswer(solveScenario.question, renderings[q.generation],
                                  response.answerChoiceIds, response.answerText)
           next == Settled(response, applyThrows, outcome.result)
       IN /\ attempts[k].phase = "awaiting"
          /\ applyThrows => applies
          /\ renderings' = IF applies /\ ~applyThrows
                           THEN [renderings EXCEPT ![q.generation] = outcome.dom]
                           ELSE renderings
          /\ assistantState' = next
          /\ attempts' = [attempts EXCEPT
               ![k].phase = "done",
               ![k].applied = IF applies THEN q ELSE NoQuestion,
               ![k].attachedAtApply = attachedGeneration,
               ![k].applySuccess = applies /\ ~applyThrows /\ outcome.result.success,
               ![k].raised = @ \cup (IF response.status = "rejected" THEN {"transport"} ELSE {})
                               \cup (IF applyThrows THEN {"application"} ELSE {}),
               ![k].response = response.status,
               ![k].outcome = next]
  /\ inFlight' = inFlight - 1
  /\ UNCHANGED <<attachedGeneration, clicks, solveScenario>>
  /\ UNCHANGED outsideSolve

\* the host page replaces the widgets of the question with fresh ones
Rerender ==
  /\ attachedGeneration <= MaxRenders
  /\ attachedGeneration' = attachedGeneration + 1
  /\ UNCHANGED <<assistantState, attempts, renderings, inFlight, clicks, solveScenario>>
  /\ UNCHANGED outsideSolve

NextSolve ==
  \/ Click
  \/ CaptureResolved
  \/ ResponseArrives
  \/ Rerender

SpecSolve == InitSolve /\ [][NextSolve]_vars

\* the screenshot capture resolves and the transport delivers or fails
SpecSolveFair ==
  /\ SpecSolve
  /\ WF_vars(CaptureResolved)
  /\ WF_vars(ResponseArrives)


(***************************************************************************)
(* The content script on one page (content/index.ts 37-101 with            *)
(* content/canvasDetector.ts): initialize, the watcher that waits for the  *)
(* page to become a quiz page, the discovery passes of observeQuestions    *)
(* and the attachAssistant call each pass makes for every container it     *)
(* delivers.  subscription tells which observer is connected: the watcher  *)
(* of initialize ("watching"), the observer of observeQuestions            *)
(* ("active"), or none because the page shows the results of a submitted   *)
(* quiz ("results").                                                       *)
(***************************************************************************)

\* the attributes of the question containers of the page
ContentContainers ==
  {ContainerOf(Null, Null, Null, FALSE),
   ContainerOf(<<"q">>, Null, Null, FALSE),
   ContainerOf(Null, <<"q","-","1">>, Null, FALSE),
   ContainerOf(<<"q">>, Null, Null, TRUE)}

\* x comes before e in document order
DocumentBefore(x, e) ==
  \/ parentElement[e] = x
  \/ parentElement[x] # e /\ x < e

\* canvasDetector.ts 62-67: the index of an element among the candidates
CandidateIndex(e) ==
  Cardinality({x \in CandidateElements : x # e /\ DocumentBefore(x, e)})

\* index.ts 74-83 and questionAssistant.ts 43-48, 111-115: attachAssistant on
\* element e, in terms of the registry and of the buttons prepended
AttachTo(s, e) ==
  IF containers[e].cqaButton THEN s
  ELSE LET uniqueId == ensureUniqueId(s.registry,
                         deriveQuestionId(containers[e], CandidateIndex(e)))
       IN [registry |-> set(s.registry, uniqueId,
                            [element |-> e, fallbackIndex |-> CandidateIndex(e)]),
           qaButtons |-> [s.qaButtons EXCEPT ![e] = @ + 1]]

\* canvasDetector.ts 67-73: candidates.forEach, in document order
RECURSIVE AttachAll(_, _)
AttachAll(s, todo) ==
  IF todo = {} THEN s
  ELSE LET e == CHOOSE x \in todo : \A y \in todo \ {x} : DocumentBefore(x, y)
       IN AttachAll(AttachTo(s, e), todo \ {e})

\* canvasDetector.ts 62-73: one run of collect with the WeakSet seen;
\* observing tells whether the observer of observeQuestions is connected,
\* so that the insertion of a button queues a record for it
collectAndAttach(seen, observing) ==
  LET fresh == {e \in CandidateElements : e \notin seen}
      s == AttachAll([registry |-> registry, qaButtons |-> qaButtons], fresh)
  IN /\ processed' = seen \cup fresh
     /\ deliveries' = [e \in PageElements |->
                         IF e \in fresh /\ deliveries[e] < MaxDeliveries
                         THEN deliveries[e] + 1 ELSE deliveries[e]]
     /\ registry' = s.registry
     /\ qaButtons' = s.qaButtons
     /\ pending' = (observing /\ s.qaButtons # qaButtons)

\* canvasDetector.ts 15-21, given whether the path names a quiz
isCanvasQuizPage(quizPath) == quizPath /\ CandidateElements # {}

\* the watcher stays connected after it has called observeQuestions
WatcherKept(results) == IF results THEN "results" ELSE "watching"

\* index.ts 53-64: the observer connected once the watcher has seen a quiz page
WatcherDone(results) == IF results THEN "results" ELSE "active"

InitContent ==
  /\ platformAdapter = "canvas"
  /\ parentElement \in Nestings
  /\ nodes \in [PageElements -> {"absent", "plain", "container"}]
  /\ Consistent(nodes)
  /\ containers \in [PageElements -> ContentContainers]
  /\ registry = EmptyRegistry
  /\ registryBefore = EmptyRegistry
  /\ attached = NoAttach
  /\ qaButtons = [e \in PageElements |-> 0]
  /\ attachCalls = 0
  /\ processed = {}
  /\ deliveries = [e \in PageElements |-> 0]
  /\ skipped = {}
  /\ qaButton = {}
  /\ subscription = "none"
  /\ pending = FALSE
  /\ debounceTimer = FALSE
  /\ initialTimer = FALSE
  /\ urlTimers = 0
  /\ urlChanged = FALSE
  /\ IdleApply
  /\ IdleLetters
  /\ IdleRegistry
  /\ IdleParse
  /\ IdleSolve

contentRest ==
  <<platformAdapter, parentElement, nodes, skipped, qaButton, debounceTimer,
    initialTimer, urlTimers, urlChanged, containers, registryBefore, attached,
    attachCalls, applyVars, letterVars, registryVars, parseVars, solveVars>>

\* index.ts 44-67: initialize, run when the content script is loaded
initialize ==
  /\ subscription = "none"
  /\ \E quizPath \in BOOLEAN, results \in BOOLEAN :
       IF isCanvasQuizPage(quizPath)
       THEN IF results
            THEN /\ subscription' = "results"
                 /\ UNCHANGED <<processed, deliveries, registry, qaButtons, pending>>
            ELSE /\ subscription' = "active"
                 /\ collectAndAttach({}, FALSE)
       ELSE /\ ~results
            /\ subscription' = "watching"
            /\ UNCHANGED <<processed, deliveries, registry, qaButtons, pending>>
  /\ UNCHANGED contentRest

\* index.ts 53-64: the callback of the watcher; disconnect discards the
\* records the buttons of observeQuestions queued for the watcher
WatcherCallback ==
  /\ subscription = "watching"
  /\ pending
  /\ \E quizPath \in BOOLEAN, results \in BOOLEAN :
       IF ~isCanvasQuizPage(quizPath)
       THEN /\ ~results
            /\ pending' = FALSE
            /\ UNCHANGED <<subscription, processed, deliveries, registry, qaButtons>>
       ELSE /\ subscription' = WatcherDone(results)
            /\ IF results
               THEN /\ pending' = FALSE
                    /\ UNCHANGED <<processed, deliveries, registry, qaButtons>>
               ELSE collectAndAttach({}, FALSE)
  /\ UNCHANGED contentRest

\* canvasDetector.ts 77: the callback of the observer of observeQuestions
QuestionsCallback ==
  /\ subscription = "active"
  /\ pending
  /\ collectAndAttach(processed, TRUE)
  /\ UNCHANGED subscription
  /\ UNCHANGED contentRest

NextContent ==
  \/ initialize
  \/ WatcherCallback
  \/ QuestionsCallback
  \/ InsertNode
  \/ RemoveNode
  \/ AttributeChange

SpecContent == InitContent /\ [][NextContent]_vars

(***************************************************************************)
(* Properties of one applyAnswer call.  before is dom at the start of the  *)
(* last call, events what that call dispatched to each element.            *)
(***************************************************************************)
Called == calls = 1

Elements == 1..Len(dom)

Count(element, type) ==
  Cardinality({i \in 1..Len(events[element]) : events[element][i] = type})

ElementOf(p) == question.choices[p].element

Positions == 1..Len(question.choices)

SelectElements == {e \in Elements : dom[e].tag = "select"}

OptionValues(e) == {dom[e].options[i].value : i \in 1..Len(dom[e].options)}

\* C1: whenever applyAnswer fails on a question of type select, every
\* dropdown holds the value it held before the call.
C1_FailedSelectUntouched ==
  (Called /\ question.type = "select" /\ ~result.success)
    => \A e \in SelectElements : dom[e].value = before[e].value

\* the dropdowns the select choices of the question refer to
ReferencedSelects ==
  {ElementOf(p) : p \in {x \in Positions : question.choices[x].kind = "select"}}

\* the mapping of the pass on the claimed ids of the last call
IdMapping ==
  ChosenBySelect(Requested(SelectChoicesOf(question), answerChoiceIds), before, EmptyMap)

\* the outcome of the pass on the claimed ids of the last call
IdPass ==
  applySelectValues(getUniqueSelectElements(SelectChoicesOf(question), before),
                    IdMapping, before, NoEvents(before))

\* the mapping of the answerText fallback of the last call
FallbackMapping ==
  TextMapping(getSelectsInDomOrder(IdPass.dom,
                getUniqueSelectElements(SelectChoicesOf(question), before)),
              normalizeAnswerParts(answerText), IdPass.dom, 1, EmptyMap)

HoldsMapping(mapping) ==
  \A e \in ReferencedSelects :
     /\ e \in DOMAIN mapping
     /\ mapping[e] # <<>>
     /\ dom[e].value = mapping[e]
     /\ mapping[e] \in OptionValues(e)

\* C2: on a question of type select, success implies that every dropdown
\* the choices refer to holds the value chosen for it by the mapping that
\* succeeded: the one of the claimed ids when its pass succeeds, else the
\* one of the answerText fallback; so a value the dropdown does not hold
\* after the write never gives success.
C2_SuccessMeansAllSelectsHold ==
  (Called /\ question.type = "select" /\ result.success)
    => IF IdPass.result.success
       THEN HoldsMapping(IdMapping)
       ELSE normalizeAnswerParts(answerText) # <<>> /\ HoldsMapping(FallbackMapping)

\* C2 witness: two dropdowns, the pass on the ids failed, the fallback
\* succeeded and wrote both
C2_Witness ==
  /\ Called /\ question.type = "select" /\ result.success
  /\ Cardinality(ReferencedSelects) = 2
  /\ ~IdPass.result.success
  /\ \A e \in ReferencedSelects : dom[e].value # before[e].value

\* C3: every widget whose state the call changed was dispatched exactly
\* one "input" and one "change"; every widget it left as it was, none.
C3_OneEventPairPerChange ==
  Called =>
    \A e \in Elements :
       IF dom[e] # before[e]
       THEN Count(e, "input") = 1 /\ Count(e, "change") = 1
       ELSE events[e] = <<>>

\* the union of the three strategies for the last suggestion
UnionOfStrategies ==
  Range(resolveChoicesByIds(question, answerChoiceIds))
    \cup Range(resolveChoicesByText(question, answerText))
    \cup Range(resolveChoicesByText(question, AsArray(answerChoiceIds)))

Checkboxes == {p \in Positions : question.choices[p].kind = "multi"}

\* C4: on a question of type multi, applyAnswer succeeds exactly when the
\* union of the three strategies is not empty, and after success a checkbox
\* choice is checked if and only if it belongs to the union.
C4_MultiSetsExactlyTheUnion ==
  (Called /\ question.type = "multi")
    => /\ result.success <=> UnionOfStrategies # {}
       /\ result.success =>
            \A p \in Checkboxes : dom[ElementOf(p)].checked <=> p \in UnionOfStrategies

\* C4 witness: ids and text contribute different choices, and a checkbox
\* checked before the call and outside the union is unchecked by it
C4_Witness ==
  /\ Called /\ question.type = "multi" /\ result.success
  /\ Range(resolveChoicesByIds(question, answerChoiceIds))
       # Range(resolveChoicesByText(question, answerText))
  /\ resolveChoicesByIds(question, answerChoiceIds) # <<>>
  /\ resolveChoicesByText(question, answerText) # <<>>
  /\ \E p \in Checkboxes :
        /\ p \notin UnionOfStrategies
        /\ before[ElementOf(p)].checked
        /\ ~dom[ElementOf(p)].checked

\* the only widget the last call may have changed is element
OnlyChanged(element) == \A e \in Elements \ {element} : dom[e] = before[e]

\* the choices whose id normalizes to the single claimed identifier
ClaimedById ==
  {p \in Positions :
     /\ Len(answerChoiceIds) = 1
     /\ normalizeNeedle(question.choices[p].id) = normalizeNeedle(answerChoiceIds[1])}

NoEarlierCandidate(c) ==
  \A p \in 1..(c - 1) :
     normalizeNeedle(answerChoiceIds[1]) \notin
       {normalizeNeedle(question.choices[p].id),
        normalizeNeedle(question.choices[p].value),
        normalizeNeedle(deriveChoiceLetter(p - 1)),
        normalizeNeedle(String(p))}

OnlyPart ==
  IF Len(normalizeAnswerParts(answerText)) = 1
  THEN normalizeComparableText(normalizeAnswerParts(answerText)[1])
  ELSE <<>>

ExactLabel(p) == normalizeComparableText(question.choices[p].label) = OnlyPart

\* C6: on a question of type single resolved by label text (no claimed
\* identifier, a one-part answerText that names no letter or position),
\* when some label equals the answer text after normalization, the radio
\* the call checks belongs to a choice with such a label.
C6_ExactLabelPreferred ==
  (/\ Called /\ question.type = "single"
   /\ answerChoiceIds = <<>>
   /\ OnlyPart # <<>>
   /\ \A p \in Positions :
         normalizeNeedle(normalizeAnswerParts(answerText)[1])
           \notin {normalizeNeedle(deriveChoiceLetter(p - 1)), normalizeNeedle(String(p))}
   /\ \E p \in Positions : ExactLabel(p))
    => \A p \in Positions :
          (dom[ElementOf(p)].checked /\ ~before[ElementOf(p)].checked) => ExactLabel(p)

\* the target the fixed priority gives for the last suggestion: the
\* first identifier match, else the first label match of answerText, else
\* the first label match of the identifiers; 0 when nothing matches
PriorityTarget ==
  IF resolveChoicesByIds(question, answerChoiceIds) # <<>>
  THEN resolveChoicesByIds(question, answerChoiceIds)[1]
  ELSE IF resolveChoicesByText(question, answerText) # <<>>
  THEN resolveChoicesByText(question, answerText)[1]
  ELSE IF resolveChoicesByText(question, AsArray(answerChoiceIds)) # <<>>
  THEN resolveChoicesByText(question, AsArray(answerChoiceIds))[1]
  ELSE 0

\* C7: on a question of type single the target is the first identifier
\* match when there is one, whatever answerText matches; else the first
\* label match of answerText; else the first label match of the claimed
\* identifiers; the call checks that target and changes no other widget,
\* and fails without a change when all three match nothing.
C7_FixedPriority ==
  (Called /\ question.type = "single")
    => IF PriorityTarget = 0
       THEN ~result.success /\ dom = before
       ELSE /\ result.success
            /\ dom[ElementOf(PriorityTarget)].checked
            /\ OnlyChanged(ElementOf(PriorityTarget))

\* C7 witness: an identifier matches one choice, answerText the label of
\* another, and the call checks the radio of the first
C7_Witness ==
  /\ Called /\ question.type = "single" /\ result.success
  /\ resolveChoicesByIds(question, answerChoiceIds) # <<>>
  /\ resolveChoicesByText(question, answerText) # <<>>
  /\ resolveChoicesByIds(question, answerChoiceIds)[1]
       # resolveChoicesByText(question, answerText)[1]
  /\ ~before[ElementOf(PriorityTarget)].checked
  /\ dom[ElementOf(PriorityTarget)].checked

\* C8: a claimed identifier equal to a choice id after identifier
\* normalization matches that choice on a select question too: with one
\* dropdown, that one identifier and no answerText, the call succeeds and
\* the dropdown holds the value of the choice.
C8_SelectIdsNormalized ==
  (/\ Called /\ question.type = "select"
   /\ Cardinality(ReferencedSelects) = 1
   /\ Len(answerChoiceIds) = 1
   /\ answerText.kind = "undefined")
    => \A p \in Positions :
          (/\ question.choices[p].kind = "select"
           /\ normalizeNeedle(question.choices[p].id) = normalizeNeedle(answerChoiceIds[1])
           /\ question.choices[p].value \in OptionValues(ElementOf(p)))
            => result.success /\ dom[ElementOf(p)].value = question.choices[p].value

\* C9: on a question of type single, multi, text or unknown a failed call
\* has changed no widget and dispatched no event, and a question of type
\* unknown always fails.
C9_FailureChangesNothing ==
  (Called /\ question.type # "select")
    => /\ ~result.success => (dom = before /\ \A e \in Elements : events[e] = <<>>)
       /\ question.type = "unknown" => ~result.success

\* C9 witness: a failed call on checkboxes one of which is checked
C9_Witness ==
  /\ Called /\ question.type = "multi" /\ ~result.success
  /\ \E e \in Elements : before[e].checked /\ dom[e].checked

\* the free-form payload as given: a string as is, an array joined by a
\* newline, nothing when absent
PayloadAsGiven ==
  IF answerText.kind = "string" THEN answerText.s
  ELSE IF answerText.kind = "array" THEN join(answerText.a, <<"\n">>)
  ELSE <<>>

\* C10: on a question of type text, an empty payload fails, a question
\* without a first choice fails, and otherwise the call succeeds with the
\* payload, unchanged, as the value of the widget of the first choice and
\* every other widget as it was.
C10_TextWritesPayloadToFirst ==
  (Called /\ question.type = "text")
    => IF PayloadAsGiven = <<>> \/ question.choices = <<>>
       THEN ~result.success /\ dom = before
       ELSE /\ result.success
            /\ dom[ElementOf(1)].value = PayloadAsGiven
            /\ OnlyChanged(ElementOf(1))

\* C10 witness: an array payload joined by a newline, kept with its
\* trailing blank, written to the first of two fields
C10_Witness ==
  /\ Called /\ question.type = "text" /\ result.success
  /\ answerText.kind = "array"
  /\ Len(question.choices) = 2
  /\ dom[ElementOf(1)].value = <<"x", " ", "\n", "y">>
  /\ before[ElementOf(1)].value # dom[ElementOf(1)].value

(***************************************************************************)
(* Properties of the choice letters                                        *)
(***************************************************************************)
LetterRank(c) == CHOOSE i \in 1..26 : UpperLetters[i] = c

\* the number a string of letters denotes in bijective base 26, A = 1 .. Z = 26
RECURSIVE LabelValue(_)
LabelValue(s) ==
  IF s = <<>> THEN 0
  ELSE 26 * LabelValue(SubSeq(s, 1, Len(s) - 1)) + LetterRank(s[Len(s)])

IsLabelOf(letter, n) ==
  /\ letter # <<>>
  /\ \A i \in 1..Len(letter) : letter[i] \in Range(UpperLetters)
  /\ LabelValue(letter) = n + 1
  /\ (n = 0 => letter = <<"A">>)
  /\ (n = 25 => letter = <<"Z">>)
  /\ (n = 26 => letter = <<"A","A">>)
  /\ (n = 27 => letter = <<"A","B">>)

\* C11: for an index from 0 on, each copy of deriveChoiceLetter returns the
\* bijective base-26 label of the index (0 gives A, 25 Z, 26 AA, 27 AB), the
\* letter of the successor index differs from it and denotes the next
\* number, and the payload copy and the resolution copy return the same
\* letter.
C11_LettersAreBijectiveBase26 ==
  choiceIndex >= 0 =>
    /\ ("payload" \in derived =>
          /\ IsLabelOf(payloadLetter, choiceIndex)
          /\ IsLabelOf(deriveChoiceLetterOfPayload(choiceIndex + 1), choiceIndex + 1)
          /\ deriveChoiceLetterOfPayload(choiceIndex + 1) # payloadLetter)
    /\ ("resolution" \in derived =>
          /\ IsLabelOf(resolutionLetter, choiceIndex)
          /\ IsLabelOf(deriveChoiceLetter(choiceIndex + 1), choiceIndex + 1)
          /\ deriveChoiceLetter(choiceIndex + 1) # resolutionLetter)
    /\ (derived = {"payload", "resolution"} => payloadLetter = resolutionLetter)

\* C11 witness: both copies have derived AA for index 26
C11_Witness ==
  /\ choiceIndex = 26
  /\ derived = {"payload", "resolution"}
  /\ payloadLetter = <<"A","A">>
  /\ resolutionLetter = <<"A","A">>

(***************************************************************************)
(* Properties of PlatformRegistry.detect                                   *)
(***************************************************************************)
Detected == detectCalls = 1

\* entry i has a URL pattern that matches the address
UrlHit(i) ==
  \E k \in 1..Len(entries[i].urlPatterns) :
     includes(toLowerCase(page.href), entries[i].urlPatterns[k])

Qualifies(i) == UrlHit(i) /\ isQuizPage(entries[i].adapter, page)

Qualifying == {i \in 1..Len(entries) : Qualifies(i)}

FirstQualifying == CHOOSE i \in Qualifying : \A j \in Qualifying : i <= j

\* C12: detect returns the adapter of the first entry, in registration
\* order, whose URL patterns match the address and whose isQuizPage is true,
\* and no adapter when there is none; it consults isQuizPage of exactly the
\* entries with a matching URL up to the one returned, in order, so an
\* earlier entry that matches the URL but is no quiz page is passed over and
\* an entry whose URL does not match is never consulted.
C12_DetectFirstQualifying ==
  Detected =>
    /\ detected = (IF Qualifying = {} THEN "undefined"
                   ELSE entries[FirstQualifying].adapter)
    /\ \A k \in 1..Len(consulted) : UrlHit(consulted[k])
    /\ \A k \in 1..(Len(consulted) - 1) : consulted[k] < consulted[k + 1]
    /\ Range(consulted) =
         {i \in 1..Len(entries) :
            /\ UrlHit(i)
            /\ (Qualifying # {} => i <= FirstQualifying)}

\* C12 witness: the first entry matches the URL but is no quiz page, the second
\* is returned, and an entry whose URL does not match was skipped
C12_Witness ==
  /\ Detected
  /\ Len(entries) = 3
  /\ ~UrlHit(1)
  /\ UrlHit(2) /\ ~isQuizPage(entries[2].adapter, page)
  /\ Qualifies(3)
  /\ entries[2].adapter # entries[3].adapter
  /\ detected = entries[3].adapter
  /\ consulted = <<2, 3>>

(***************************************************************************)
(* Properties of attachAssistant                                           *)
(***************************************************************************)
AttachCalled == attachCalls > 0

\* every entry of the registry before the last call is still there, unchanged
NothingOverwritten ==
  \A k \in DOMAIN registryBefore :
     k \in DOMAIN registry /\ registry[k] = registryBefore[k]

\* the base id the last call derived
AttachedBase == deriveQuestionId(containers[attached.element], attached.fallbackIndex)

\* the base id of the container registered under a key
BaseOfEntry(entry) == deriveQuestionId(containers[entry.element], entry.fallbackIndex)

Suffixes == 1..(MaxAttach + 1)

\* the suffixes that containers of the same base id were registered under
UsedForBase ==
  {n \in Suffixes :
     \E k \in DOMAIN registryBefore :
        /\ BaseOfEntry(registryBefore[k]) = AttachedBase
        /\ k = Candidate(AttachedBase, n)}

\* the suffixes n for which base-n is a key, whichever container holds it
TakenKeys ==
  {n \in Suffixes : Candidate(AttachedBase, n) \in DOMAIN registryBefore}

Smallest(free) == CHOOSE n \in free : \A m \in free : n <= m

KeyRule(used) ==
  attached.key =
    IF AttachedBase \notin DOMAIN registryBefore THEN AttachedBase
    ELSE Candidate(AttachedBase, Smallest(Suffixes \ used))

RegisteredFresh ==
  /\ attached.key \notin DOMAIN registryBefore
  /\ DOMAIN registry = DOMAIN registryBefore \cup {attached.key}
  /\ registry[attached.key].element = attached.element

\* C13 as claimed: every call registers its assistant under a key that was
\* not in the registry, no entry is overwritten or removed, and the key of a
\* container whose base id is registered is the base id, '-' and the
\* smallest positive integer not yet used for that base.
C13_EveryCallRegistersSmallestUnused ==
  AttachCalled =>
    /\ attached.registered
    /\ NothingOverwritten
    /\ RegisteredFresh
    /\ KeyRule(UsedForBase)

\* C13, as the code has it: no call overwrites or removes an entry; a call
\* on a container that holds no element of class cqa-button registers its
\* assistant under a key that was not in the registry, which is the base
\* id when that is free and else the base id, '-' and the smallest positive
\* integer n for which base-n is not a key of the registry; a call on a
\* container that holds such an element leaves the registry as it was.
C13_RegistersUnderFreeKey ==
  AttachCalled =>
    /\ NothingOverwritten
    /\ attached.registered = ~containers[attached.element].cqaButton
    /\ (attached.registered => RegisteredFresh /\ KeyRule(TakenKeys))
    /\ (~attached.registered => registry = registryBefore)

\* C13 witness: the second container of base q is registered while q-1 is
\* the key of a container whose own id is q-1, and gets q-2
C13_Witness ==
  /\ AttachCalled /\ attached.registered
  /\ AttachedBase = <<"q">>
  /\ <<"q">> \in DOMAIN registryBefore
  /\ <<"q","-","1">> \in DOMAIN registryBefore
  /\ BaseOfEntry(registryBefore[<<"q","-","1">>]) = <<"q","-","1">>
  /\ attached.key = <<"q","-","2">>

(***************************************************************************)
(* Properties of observeQuestions                                          *)
(***************************************************************************)
\* C14: for one subscription, the callback is invoked at most once for any
\* element, whatever mutations, timers and URL changes occur, also in the
\* passes that run after the callback has inserted the assistant button.
C14_AtMostOncePerContainer ==
  \A e \in PageElements : deliveries[e] <= 1

\* C14 witness: an element was delivered once, holds the button, and a
\* later pass met it as a container and left it out as processed
C14_Witness ==
  \E e \in PageElements :
     /\ deliveries[e] = 1
     /\ e \in qaButton
     /\ e \in skipped
     /\ nodes[e] = "container"

MatchesSignature(e) == subscription = "active" /\ nodes[e] = "container"

\* C15: while the subscription is active, an element that matches the
\* container signature, however it came to match it, is eventually
\* delivered to the callback unless it stops matching or the subscription
\* ends.
C15_QualifyingEventuallyDelivered ==
  \A e \in PageElements :
     MatchesSignature(e) ~> (deliveries[e] > 0 \/ ~MatchesSignature(e))

\* C16: once the disposer has been called, the callback is not invoked
\* again: no step of a disposed subscription adds a delivery.
C16_NoCallbackAfterDispose ==
  [][subscription = "disposed" => deliveries' = deliveries]_vars

\* the elements delivered to the callback that are in the document
DeliveredAttached == {e \in PageElements : deliveries[e] > 0 /\ nodes[e] # "absent"}

\* C24: of the containers delivered to the callback of a subscription
\* that are in the document, none lies inside another, whichever passes
\* delivered them.
C24_DeliveredNotNested ==
  \A a \in DeliveredAttached, b \in DeliveredAttached :
     a # b => ~contains(a, b)

\* C25: no step delivers to the callback a container whose widgets are
\* all disabled: a container is delivered only while one of its widgets
\* is enabled.
C25_DisabledNotDelivered ==
  [][\A e \in PageElements :
       deliveries'[e] > deliveries[e] => nodes[e] # "disabled"]_vars

(***************************************************************************)
(* Properties of parseQuestion                                             *)
(***************************************************************************)
ParsedOnce == Len(parsedQuestions) >= 1

LastParsed == parsedQuestions[Len(parsedQuestions)]

\* the (label, kind, value) tuples of the choices of a question, in order
ChoiceTuples(q) ==
  [i \in 1..Len(q.choices) |->
     <<q.choices[i].label, q.choices[i].kind, q.choices[i].value>>]

WidgetTags == {liveBefore.widgets[i].tag : i \in 1..Len(liveBefore.widgets)}

\* the type that the priority radio, checkbox, dropdown, text gives
PriorityType ==
  IF "radio" \in WidgetTags THEN "single"
  ELSE IF "checkbox" \in WidgetTags THEN "multi"
  ELSE IF "select" \in WidgetTags THEN "select"
  ELSE IF WidgetTags \cap {"text", "textarea"} # {} THEN "text"
  ELSE "unknown"

\* C18: parseQuestion of either adapter infers the type by the priority:
\* any radio gives single, else any checkbox multi, else any dropdown
\* select, else any text input or textarea text, else unknown, whatever
\* other widgets the container holds.
C18_TypeByFixedPriority ==
  ParsedOnce => LastParsed.type = PriorityType

\* C19: the choices of a parsed question are all of the kind of its type,
\* and a question of type unknown has no choices.
C19_ChoiceKindsAgreeWithType ==
  ParsedOnce =>
    /\ KindsOf(LastParsed.choices) \subseteq {LastParsed.type}
    /\ (LastParsed.type = "unknown" => LastParsed.choices = <<>>)

\* C20: the ids of the choices of a parsed question are pairwise distinct.
C20_ChoiceIdsDistinct ==
  ParsedOnce =>
    \A i, j \in 1..Len(LastParsed.choices) :
       i # j => LastParsed.choices[i].id # LastParsed.choices[j].id

(***************************************************************************)
(* The mapping of the claimed identifiers to dropdowns (lines 122-133)     *)
(***************************************************************************)
\* the select choices of dropdown e whose id is the claimed identifier id
ChoicesClaimedBy(id, e) ==
  {p \in Positions :
     /\ question.choices[p].kind = "select"
     /\ trim(question.choices[p].value) # <<>>
     /\ question.choices[p].id = id
     /\ ElementOf(p) = e}

\* the ranks of the claimed identifiers that resolve to an option of e
ClaimsOn(e) ==
  {i \in 1..Len(answerChoiceIds) : ChoicesClaimedBy(answerChoiceIds[i], e) # {}}

FirstClaimOn(e) == CHOOSE i \in ClaimsOn(e) : \A j \in ClaimsOn(e) : i <= j

ValueOfFirstClaim(e) ==
  question.choices[CHOOSE p \in ChoicesClaimedBy(answerChoiceIds[FirstClaimOn(e)], e) : TRUE].value

\* C27: on a question of type select the mapping of the claimed
\* identifiers has an entry for exactly the dropdowns that some claimed
\* identifier resolves to, and the entry is the value of the first such
\* identifier in claim order; later identifiers for the same dropdown and
\* identifiers that resolve to no choice change nothing.  When that pass
\* succeeds every dropdown holds the value so assigned.
C27_FirstClaimedIdWinsPerSelect ==
  (Called /\ question.type = "select" /\ ReferencedSelects # {})
    => /\ DOMAIN IdMapping = {e \in ReferencedSelects : ClaimsOn(e) # {}}
       /\ \A e \in DOMAIN IdMapping : IdMapping[e] = ValueOfFirstClaim(e)
       /\ IdPass.result.success
            => \A e \in ReferencedSelects :
                 ClaimsOn(e) # {} /\ dom[e].value = ValueOfFirstClaim(e)

\* C27 witness: two identifiers claimed for the same dropdown with
\* different values, the pass on the ids succeeded and wrote the first
C27_Witness ==
  /\ Called /\ question.type = "select" /\ IdPass.result.success
  /\ \E e \in ReferencedSelects :
       /\ Cardinality(ClaimsOn(e)) = 2
       /\ \E i \in ClaimsOn(e) :
            \A p \in ChoicesClaimedBy(answerChoiceIds[i], e) :
               question.choices[p].value # ValueOfFirstClaim(e)
       /\ dom[e].value = ValueOfFirstClaim(e)
       /\ dom[e].value # before[e].value

(***************************************************************************)
(* The answerText fallback of the select branch (lines 141-161)            *)
(***************************************************************************)
\* the dropdowns of the question in document order
SelectsInDocumentOrder ==
  SelectSeq([e \in 1..Len(dom) |-> e], LAMBDA e : e \in ReferencedSelects)

\* the first of the options of the dropdown at rank among hits
FirstOf(hits) == CHOOSE k \in hits : \A j \in hits : k <= j

\* the option of dropdown e chosen for part: one whose trimmed value is the
\* part, else one whose label (whitespace collapsed, trimmed) is the part
\* up to case, else one whose label contains the part up to case
OptionFor(e, part) ==
  LET options == before[e].options
      needle == toLowerCase(trim(part))
      byValue == {k \in 1..Len(options) : trim(options[k].value) = trim(part)}
      byLabel == {k \in 1..Len(options) :
                    OptionLabel(options[k]) # <<>> /\ OptionLabel(options[k]) = needle}
      byContains == {k \in 1..Len(options) :
                       OptionLabel(options[k]) # <<>>
                         /\ includes(OptionLabel(options[k]), needle)}
  IN IF byValue # {} THEN <<FirstOf(byValue)>>
     ELSE IF byLabel # {} THEN <<FirstOf(byLabel)>>
     ELSE IF byContains # {} THEN <<FirstOf(byContains)>>
     ELSE <<>>

\* the value the fallback assigns to the dropdown at rank i in document
\* order, the empty string when it assigns none
PartValue(i) ==
  LET parts == normalizeAnswerParts(answerText)
      e == SelectsInDocumentOrder[i]
  IN IF i > Len(parts) \/ OptionFor(e, parts[i]) = <<>> THEN <<>>
     ELSE before[e].options[OptionFor(e, parts[i])[1]].value

FallbackAttempted ==
  ~IdPass.result.success /\ normalizeAnswerParts(answerText) # <<>>

\* what the dropdowns hold and what the call returns when the values of
\* PartValue are applied after the pass on the ids
PartsApplied ==
  applySelectValues(getUniqueSelectElements(SelectChoicesOf(question), before),
                    [e \in {SelectsInDocumentOrder[i] :
                              i \in {j \in 1..Len(SelectsInDocumentOrder) : PartValue(j) # <<>>}}
                       |-> PartValue(CHOOSE i \in 1..Len(SelectsInDocumentOrder) :
                                       SelectsInDocumentOrder[i] = e)],
                    IdPass.dom, IdPass.events)

\* C28: on a question of type select, when the pass on the ids succeeds or
\* answerText has no part the call ends with the outcome of that pass;
\* otherwise the i-th part is resolved against the i-th dropdown in
\* document order only (parts beyond the dropdowns are not used), the
\* option being the first with that value, else the first with that label
\* up to case, else the first whose label contains the part, and the call
\* ends with these values applied.
C28_FallbackPartPerSelectInOrder ==
  (Called /\ question.type = "select" /\ ReferencedSelects # {})
    => IF FallbackAttempted
       THEN /\ dom = PartsApplied.dom
            /\ result = PartsApplied.result
            /\ \A i \in 1..Len(SelectsInDocumentOrder) :
                 MapGet(FallbackMapping, SelectsInDocumentOrder[i]) = PartValue(i)
       ELSE dom = IdPass.dom /\ result = IdPass.result

\* C28 witness: two dropdowns, the pass on the ids failed, the first part
\* is the value of an option whose label does not hold it while the label
\* of an earlier option contains it, and the fallback wrote both dropdowns
C28_Witness ==
  /\ Called /\ question.type = "select" /\ FallbackAttempted
  /\ Len(SelectsInDocumentOrder) = 2
  /\ result.success
  /\ \A i \in 1..2 : dom[SelectsInDocumentOrder[i]].value = PartValue(i)
  /\ \E i \in 1..2 :
       LET e == SelectsInDocumentOrder[i]
           part == normalizeAnswerParts(answerText)[i]
           k == OptionFor(e, part)[1]
       IN /\ trim(before[e].options[k].value) = trim(part)
          /\ \E j \in 1..(k - 1) :
               includes(OptionLabel(before[e].options[j]), toLowerCase(part))

(***************************************************************************)
(* applyAnswer called again with the same Question and suggestion          *)
(***************************************************************************)
\* the checked / value state of every widget
WidgetState(d) == [e \in 1..Len(d) |-> [checked |-> d[e].checked, value |-> d[e].value]]

\* C29: a call of applyAnswer that follows a call with the same Question
\* and the same suggestion returns what that call returned and leaves the
\* checked and value state of every widget as that call left it.
C29_SecondCallChangesNothing ==
  [][calls = 1 => (result' = result /\ WidgetState(dom') = WidgetState(dom))]_vars

\* C29 witness: a question of three radios whose second radio is checked,
\* which no question starts with, and a successful call that found every
\* widget as it left it: the call that followed the one that checked it
C29_Witness ==
  /\ Called /\ question.type = "single" /\ result.success
  /\ Len(dom) = MaxChoices
  /\ dom[2].checked /\ ~dom[1].checked
  /\ dom = before

(***************************************************************************)
(* Properties of the solve attempts of one question assistant.             *)
(***************************************************************************)

Done(k) == k <= Len(attempts) /\ attempts[k].phase = "done"

\* C22: under any interleaving of clicks and responses at most one solve
\* request is in flight for the question: a click that arrives while the
\* assistant is loading issues no request and starts no attempt, and the
\* assistant is in the loading state as soon as the click that started an
\* attempt returns, and stays there while the attempt is under way.
C22_AtMostOneRequestInFlight ==
  /\ [](/\ inFlight <= 1
        /\ Cardinality(Active) <= 1
        /\ Active # {} <=> assistantState = "loading")
  /\ [][(assistantState = "loading" /\ clicks' = clicks + 1)
          => (attempts' = attempts /\ inFlight' = inFlight)]_vars
  /\ [][Len(attempts') > Len(attempts)
          => (assistantState' = "loading" \/ Done(Len(attempts))')]_vars

\* a second click arrived while the request of the first attempt was in flight
C22_Witness ==
  /\ Len(attempts) = 1
  /\ attempts[1].phase = "awaiting"
  /\ inFlight = 1
  /\ clicks = 2

\* C23: in every solve attempt the Question passed to applyAnswer was
\* parsed inside that attempt, before the request was sent; it is never the
\* Question parsed when the container was observed, and it is the Question
\* whose choices were sent in the payload.
C23_AppliedQuestionParsedInAttempt ==
  \A k \in 1..Len(attempts) :
    /\ attempts[k].payload # NoQuestion =>
         /\ attempts[k].payload = attempts[k].parsed
         /\ attempts[k].parsed.attempt = k
    /\ attempts[k].applied # NoQuestion =>
         /\ attempts[k].applied.attempt = k
         /\ attempts[k].applied # ObservedQuestion
         /\ attempts[k].applied = attempts[k].payload

\* the second attempt parsed the question after a re-render and applied
\* the answer to it
C23_Witness ==
  /\ Len(attempts) = 2
  /\ attempts[2].applied = ParsedAt(2, 2)
  /\ attempts[2].payload = ParsedAt(2, 2)
  /\ attempts[2].outcome = "success"

\* C26: when the host page replaced the widgets of the question between
\* the sending of the request and the arrival of the response, an attempt
\* that ends in the success state has put the answer on widgets that are
\* in the document at that moment.
C26_SuccessAppliesToAttachedWidgets ==
  \A k \in 1..Len(attempts) :
    (/\ attempts[k].phase = "done"
     /\ attempts[k].outcome = "success"
     /\ attempts[k].capturedAt < attempts[k].attachedAtApply)
      => attempts[k].applied.generation = attempts[k].attachedAtApply

\* the state an attempt must end in when the exceptions of the given steps
\* are the ones that become the error state
ExpectedOutcome(a, converted) ==
  IF a.raised \cap converted # {} THEN "error"
  ELSE IF a.response \in {"error", "timeout"} THEN a.response
  ELSE IF ~a.applySuccess THEN "error"
  ELSE "success"

SettlesAs(converted) ==
  /\ [](\A k \in 1..Len(attempts) :
          Done(k) => /\ attempts[k].outcome \in {"success", "error", "timeout"}
                     /\ attempts[k].outcome = ExpectedOutcome(attempts[k], converted))
  /\ \A k \in 1..MaxAttempts : (k <= Len(attempts)) ~> Done(k)
  /\ (assistantState = "loading") ~> (assistantState \in {"success", "error", "timeout"})

\* C21 (as stated): every attempt that enters the loading state eventually
\* leaves it for exactly one of success, error or timeout; a non-success
\* response gives its status, a success response whose application fails
\* gives error, and an exception raised during parsing, capture, transport
\* or application gives error.
C21_EveryExceptionBecomesError ==
  SettlesAs({"parsing", "capture", "transport", "application"})

\* C21 (amended): the same, where the exceptions that give error are those
\* of parsing, transport and application; a failure of the screenshot
\* capture is absorbed by captureQuestionImage, the request is sent with an
\* empty screenshot and the attempt ends as its response and application
\* decide.
C21_LoadingAttemptSettles ==
  SettlesAs({"parsing", "transport", "application"})

\* one attempt ended in error because applying the answer threw, the next
\* went on after a failed capture and ended with the timeout of its response
C21_Witness ==
  /\ Len(attempts) = 2
  /\ attempts[1].raised = {"application"}
  /\ attempts[1].outcome = "error"
  /\ attempts[2].raised = {"capture"}
  /\ attempts[2].response = "timeout"
  /\ assistantState = "timeout"

(***************************************************************************)
(* Properties of the content script on one page.                           *)
(***************************************************************************)

EntriesOf(e) == {k \in DOMAIN registry : registry[k].element = e}

====
